---- MODULE Spec2Model ----
(***************************************************************************)
(* Task-management REST backend: the request pipeline                      *)
(*   protect -> zodResolver(schema) -> controller -> errorHandler           *)
(* over the Task and User collections.                                     *)
(*                                                                         *)
(* A task request is one atomic step: protect awaits User.findById, the    *)
(* controller awaits a single storage operation (findOne, create,          *)
(* findOneAndUpdate, updateOne, updateMany), and the response is built     *)
(* from that operation's result; the step is placed at the storage         *)
(* operation.  getTasks issues two queries at once (Promise.all); the      *)
(* specification SpecList runs them as separate steps in either order.     *)
(* registerUser does a findOne and then a create; SpecReg runs them as     *)
(* separate steps of concurrent requests.                                  *)
(***************************************************************************)
EXTENDS Integers, Sequences, FiniteSets, TLC

VARIABLES
    users,    \* User collection: set of [id, email]
    tasks,    \* Task collection: sequence of documents, _id = ObjectIdOf(index)
    clock,    \* Date.now() of the latest write
    req,      \* the request handled by the latest step
    res,      \* the response sent by the latest step
    reg,      \* the registration requests in flight, by connection
    hits,     \* authLimiter: requests counted in the current window
    list      \* the list request between its arrival and its response

vars == <<users, tasks, clock, req, res, reg, hits, list>>

----------------------------------------------------------------------------
(* Bounds of the model *)

MaxTasks == 2       \* documents the Task collection may hold
MaxClock == 3       \* writes (each write sees a later Date.now())
NumRegs == 3        \* requests in flight together
MaxListTasks == 15  \* documents in the collection a list request reads
MaxLimitTasks == 51 \* documents in a collection larger than the largest page

----------------------------------------------------------------------------
(* Program constants *)

IdLen == 24                 \* /^[0-9a-fA-F]{24}$/
TitleMax == 100             \* createTaskSchema title max
DefaultLimit == 10          \* getTasks: limit when the query has none
MaxPaginationLimit == 50    \* getTasks: parseInt(MAX_PAGINATION_LIMIT) || 50
QueryLimitMax == 100        \* getTasksSchema limit max

Statuses == {"pending", "in-progress", "completed"}

AllowedFields == {"title", "description", "status", "dueDate"}

----------------------------------------------------------------------------
(* Values *)

None == <<>>
Some(v) == <<v>>

\* Strings whose characters matter (titles, ids, emails) are tuples of
\* one-character strings.
RECURSIVE TrimLeft(_)
TrimLeft(s) ==
    IF s = <<>> THEN s
    ELSE IF Head(s) = " " THEN TrimLeft(Tail(s)) ELSE s

RECURSIVE TrimRight(_)
TrimRight(s) ==
    IF s = <<>> THEN s
    ELSE IF s[Len(s)] = " " THEN TrimRight(SubSeq(s, 1, Len(s) - 1)) ELSE s

Trim(s) == TrimRight(TrimLeft(s))

HexChars ==
    {"0", "1", "2", "3", "4", "5", "6", "7", "8", "9",
     "a", "b", "c", "d", "e", "f", "A", "B", "C", "D", "E", "F"}

HexDigits ==
    <<"0", "1", "2", "3", "4", "5", "6", "7", "8", "9",
      "a", "b", "c", "d", "e", "f">>

\* The _id of the index-th document inserted into the Task collection: an
\* opaque 24-hex-character ObjectId, here the index written in hexadecimal.
ObjectIdOf(i) ==
    [k \in 1..IdLen |->
        IF k = IdLen THEN HexDigits[(i % 16) + 1]
        ELSE IF k = IdLen - 1 THEN HexDigits[((i \div 16) % 16) + 1]
        ELSE "0"]

\* Casting a string to ObjectId reads the hex digits case-insensitively.
LowerHexChar(c) ==
    CASE c = "A" -> "a" [] c = "B" -> "b" [] c = "C" -> "c"
      [] c = "D" -> "d" [] c = "E" -> "e" [] c = "F" -> "f"
      [] OTHER -> c

CastObjectId(s) == [k \in 1..Len(s) |-> LowerHexChar(s[k])]

\* id: z.string().regex(/^[0-9a-fA-F]{24}$/, "Invalid MongoDB ID")
IsObjectIdString(s) == Len(s) = IdLen /\ \A k \in 1..Len(s) : s[k] \in HexChars

\* z.coerce.date(): new Date(wire value); an Invalid Date is a violation.
InvalidDate == 0 - 1
CoerceDate(w) ==
    CASE w = "2025-12-31" -> 20251231
      [] w = "2026-01-15" -> 20260115
      [] w = "null"       -> 0
      [] OTHER            -> InvalidDate

----------------------------------------------------------------------------
(* Responses and the terminal error translator *)

NoReq == [op |-> "none", header |-> <<>>, id |-> <<>>, body |-> <<>>, query |-> <<>>]

Request(op, header, id, body, query) ==
    [op |-> op, header |-> header, id |-> id, body |-> body, query |-> query]

\* res.status(s).json({success: true, data, meta?})
Success(status, data, meta, modified, id) ==
    [status |-> status, success |-> TRUE, message |-> "", details |-> <<>>,
     data |-> data, meta |-> meta, modified |-> modified, id |-> id,
     type |-> "json"]

\* {success: false, error: {message, details?}}
Failure(status, message, details) ==
    [status |-> status, success |-> FALSE, message |-> message,
     details |-> details, data |-> <<>>, meta |-> None, modified |-> None,
     id |-> <<>>, type |-> "json"]

\* res.status(s).send(text): the body is the text itself, not a JSON object;
\* it has no success and no error key.
Send(status, text) ==
    [status |-> status, success |-> FALSE, message |-> "", details |-> <<>>,
     data |-> <<text>>, meta |-> None, modified |-> None, id |-> <<>>,
     type |-> "text"]

NoRes == Failure(0, "", <<>>)

\* A registration request on one connection: where it stands, its body as
\* the latest middleware left it, the step that answered it, the response.
RegCall(pc, body, at, response) ==
    [pc |-> pc, body |-> body, at |-> at, res |-> response]

IdleReg == RegCall("idle", <<>>, "", NoRes)

\* errorHandler(err, req, res, next): statusCode is what the thrower set with
\* res.status(), 200 when it set nothing.
errorHandler(statusCode, name, message) ==
    LET s0 == IF statusCode = 200 THEN 500 ELSE statusCode
        s1 == IF name = "CastError" THEN 400 ELSE s0
        m1 == IF name = "CastError" THEN "Resource not found" ELSE message
        s2 == IF name = "ValidationError" THEN 400 ELSE s1
    IN Failure(s2, m1, <<>>)

----------------------------------------------------------------------------
(* AuthGate: middleware/authMiddleware.js *)

Token(sub, sig, alg, expired) ==
    [sub |-> sub, sig |-> sig, alg |-> alg, expired |-> expired]

\* jwt.verify(token, JWT_SECRET, {algorithms: ['HS256']})
jwtVerify(token) ==
    token.sig = "valid" /\ token.alg = "HS256" /\ ~token.expired

\* The Authorization header as its space-separated words: <<>> when absent,
\* <<"Bearer", token>> in bearer form.  The first word is kept as its
\* characters: protect looks at how it starts.
BearerPrefix == <<"B", "e", "a", "r", "e", "r">>
Bearer(token) == <<BearerPrefix, token>>

\* authorization.startsWith('Bearer')
StartsWith(s, prefix) ==
    Len(s) >= Len(prefix) /\ SubSeq(s, 1, Len(prefix)) = prefix

\* Mutant: the query without .select('-password').
SelectEverything(doc, key) == doc

\* .select('-password'): the document without that path.
SelectWithout(doc, key) == [k \in DOMAIN doc \ {key} |-> doc[k]]

\* What the try block of protect does when something in it throws.
Threw(message) ==
    [threw |-> TRUE, message |-> message, user |-> None, identity |-> None]

\* The try block of protect: what it throws, or the user it resolves.  user
\* is req.user._id, identity is req.user.
protectTry(header, U) ==
    LET token == IF Len(header) >= 2 THEN Some(header[2]) ELSE None
    IN  IF token = None \/ ~jwtVerify(token[1])
        THEN Threw("jwt verification failed")
        ELSE LET found == {u \in U : u.id = token[1].sub}
             IN  IF found = {}
                 THEN Threw("User not found")
                 ELSE [threw |-> FALSE, message |-> "",
                       user |-> Some(token[1].sub),
                       identity |-> Some(SelectWithout(CHOOSE u \in found : TRUE,
                                                       "password"))]

\* The catch block of protect answers every throw of the try block, the
\* 'User not found' throw included, with 401 'Not authorized'.
protectCatch(t) ==
    IF t.threw
    THEN [ok |-> FALSE, user |-> None, identity |-> None,
          res |-> errorHandler(401, "Error", "Not authorized")]
    ELSE [ok |-> TRUE, user |-> t.user, identity |-> t.identity, res |-> NoRes]

protect(header, U) ==
    IF header # <<>> /\ StartsWith(header[1], BearerPrefix)
    THEN protectCatch(protectTry(header, U))
    ELSE [ok |-> FALSE, user |-> None, identity |-> None,
          res |-> errorHandler(401, "Error", "Not authorized, no token")]

----------------------------------------------------------------------------
(* SchemaValidator: validations/taskValidation.js, middleware/zodResolver.js *)

\* One entry of error.details: {field: path.join('.'), message}
Issue(field, message) == [field |-> field, message |-> message]

\* z.coerce.number(): Number(wire string); NaN is a violation.
NaN == 0 - 1
DigitVal(c) ==
    CASE c = "0" -> 0 [] c = "1" -> 1 [] c = "2" -> 2 [] c = "3" -> 3
      [] c = "4" -> 4 [] c = "5" -> 5 [] c = "6" -> 6 [] c = "7" -> 7
      [] c = "8" -> 8 [] c = "9" -> 9 [] OTHER -> 0 - 1

RECURSIVE Decimal(_)
Decimal(w) ==
    IF w = <<>> THEN 0
    ELSE Decimal(SubSeq(w, 1, Len(w) - 1)) * 10 + DigitVal(w[Len(w)])

CoerceNumber(w) ==
    IF \E k \in 1..Len(w) : DigitVal(w[k]) < 0 THEN NaN ELSE Decimal(w)

\* A z.object keeps the keys of its shape that the input has and drops every
\* other key; dueDate, page and limit are replaced by their coerced values.
Strip(obj, shape) ==
    [k \in (DOMAIN obj) \cap shape |->
        IF k = "dueDate" THEN CoerceDate(obj[k])
        ELSE IF k \in {"page", "limit"} THEN CoerceNumber(obj[k])
        ELSE obj[k]]

Has(obj, k) == k \in DOMAIN obj

Parsed(issues, body, params, query) ==
    [ok |-> issues = <<>>, issues |-> issues,
     body |-> body, params |-> params, query |-> query]

\* Mutant: params.id without the regex.
ParamsIssuesAnyString(id) == <<>>

\* params: z.object({id: z.string().regex(/^[0-9a-fA-F]{24}$/, ...)})
ParamsIssues(id) ==
    IF IsObjectIdString(id) THEN <<>>
    ELSE <<Issue("params.id", "Invalid MongoDB ID")>>

\* status: z.enum([...]).optional()
EnumIssues(obj, path) ==
    IF Has(obj, "status") /\ obj["status"] \notin Statuses
    THEN <<Issue(path, "Invalid enum value")>> ELSE <<>>

\* dueDate: z.coerce.date().optional()
DueDateIssues(b) ==
    IF Has(b, "dueDate") /\ CoerceDate(b["dueDate"]) = InvalidDate
    THEN <<Issue("body.dueDate", "Invalid date")>> ELSE <<>>

createTaskSchema(r) ==
    LET b == r.body
        title ==
            IF ~Has(b, "title") THEN <<Issue("body.title", "Title is required")>>
            ELSE IF Len(b["title"]) < 1
                 THEN <<Issue("body.title", "Title cannot be empty")>>
            ELSE IF Len(b["title"]) > TitleMax
                 THEN <<Issue("body.title", "Title is too long")>>
            ELSE <<>>
        status ==
            IF Has(b, "status") /\ b["status"] \notin Statuses
            THEN <<Issue("body.status", "Invalid status value")>> ELSE <<>>
    IN  Parsed(title \o status \o DueDateIssues(b),
               Some(Strip(b, AllowedFields)), None, None)

updateTaskSchema(r) ==
    LET b == r.body
        title ==
            IF ~Has(b, "title") THEN <<Issue("body.title", "Required")>>
            ELSE IF Len(b["title"]) < 1
                 THEN <<Issue("body.title", "Title is required")>>
            ELSE <<>>
        status ==
            IF ~Has(b, "status") THEN <<Issue("body.status", "Required")>>
            ELSE EnumIssues(b, "body.status")
    IN  Parsed(ParamsIssues(r.id) \o title \o status \o DueDateIssues(b),
               Some(Strip(b, AllowedFields)), Some(r.id), None)

\* Mutant: the schema without the refinement.
patchNoRefine(data) == TRUE

\* .refine((data) => Object.keys(data).length > 0): data is the parsed
\* (stripped) body.
patchRefine(data) == DOMAIN data # {}

patchTaskSchema(r) ==
    LET b == r.body
        data == Strip(b, AllowedFields)
        title ==
            IF Has(b, "title") /\ Len(b["title"]) < 1
            THEN <<Issue("body.title", "String must contain at least 1 character(s)")>>
            ELSE <<>>
        refine ==
            IF patchRefine(data) THEN <<>>
            ELSE <<Issue("body", "At least one field must be provided for update")>>
    IN  Parsed(ParamsIssues(r.id) \o title \o EnumIssues(b, "body.status")
                   \o DueDateIssues(b) \o refine,
               Some(data), Some(r.id), None)

ListQueryKeys == {"search", "status", "page", "limit"}

\* Mutant: page and limit without min and max.
getTasksSchemaNoBounds(r) ==
    Parsed(EnumIssues(r.query, "query.status"), None, None,
           Some(Strip(r.query, ListQueryKeys)))

getTasksSchema(r) ==
    LET q == r.query
        page ==
            IF Has(q, "page") /\ CoerceNumber(q["page"]) < 1
            THEN <<Issue("query.page", "Number must be greater than or equal to 1")>>
            ELSE <<>>
        limit ==
            IF Has(q, "limit") /\ CoerceNumber(q["limit"]) < 1
            THEN <<Issue("query.limit", "Number must be greater than or equal to 1")>>
            ELSE IF Has(q, "limit") /\ CoerceNumber(q["limit"]) > QueryLimitMax
            THEN <<Issue("query.limit", "Number must be less than or equal to 100")>>
            ELSE <<>>
    IN  Parsed(EnumIssues(q, "query.status") \o page \o limit,
               None, None, Some(Strip(q, ListQueryKeys)))

\* Mutant: the schema without the confirmation flag.
deleteTasksByStatusNoConfirm(r) ==
    LET q == r.query
        status ==
            IF ~Has(q, "status")
            THEN <<Issue("query.status", "Status query parameter is required")>>
            ELSE EnumIssues(q, "query.status")
    IN  Parsed(status, None, None, Some(Strip(q, {"status"})))

deleteTasksByStatusSchema(r) ==
    LET q == r.query
        status ==
            IF ~Has(q, "status")
            THEN <<Issue("query.status", "Status query parameter is required")>>
            ELSE EnumIssues(q, "query.status")
        confirm ==
            IF ~Has(q, "confirm")
            THEN <<Issue("query.confirm", "Confirmation required: add ?confirm=true")>>
            ELSE IF q["confirm"] # "true"
            THEN <<Issue("query.confirm", "Invalid enum value")>>
            ELSE <<>>
    IN  Parsed(status \o confirm, None, None,
               Some(Strip(q, {"status", "confirm"})))

quickTaskSchema(r) ==
    LET b == r.body
        title ==
            IF ~Has(b, "title") THEN <<Issue("body.title", "Required")>>
            ELSE IF Len(b["title"]) < 1
                 THEN <<Issue("body.title", "Title is required")>>
            ELSE <<>>
    IN  Parsed(title, Some(Strip(b, {"title"})), None, None)

taskIdParamSchema(r) == Parsed(ParamsIssues(r.id), None, Some(r.id), None)

\* zodResolver(require('zod').object({})): nothing declared, nothing replaced
emptySchema(r) == Parsed(<<>>, None, None, None)

\* Mutant: the resolver calls next() without overwriting the request.
\* zodResolver(schema): on success the declared sections of the request are
\* overwritten with the parsed data (validatedData.x || req.x); on a ZodError
\* the 400 envelope is sent and next() is not called.
zodResolverKeepsRaw(parsed, r) ==
    IF parsed.ok
    THEN [ok |-> TRUE, res |-> NoRes, req |-> r]
    ELSE [ok |-> FALSE, req |-> r,
          res |-> Failure(400, "Validation failed", parsed.issues)]

zodResolver(parsed, r) ==
    IF parsed.ok
    THEN [ok |-> TRUE, res |-> NoRes,
          req |-> [r EXCEPT
                     !.body = IF parsed.body # None THEN parsed.body[1] ELSE @,
                     !.id = IF parsed.params # None THEN parsed.params[1] ELSE @,
                     !.query = IF parsed.query # None THEN parsed.query[1] ELSE @]]
    ELSE [ok |-> FALSE, req |-> r,
          res |-> Failure(400, "Validation failed", parsed.issues)]

----------------------------------------------------------------------------
(* The Task model: models/Task.js, and the Mongoose operations on it *)

Min(a, b) == IF a < b THEN a ELSE b
Max(a, b) == IF a > b THEN a ELSE b

\* What a response carries of a document: .lean() / toJSON of the document.
View(T, i) == [id |-> i, doc |-> T[i]]

\* Schema validation of a title after the trim setter: required.
TitleErrors(fields) ==
    IF Has(fields, "title") /\ Trim(fields["title"]) = <<>>
    THEN <<"Please add a title">> ELSE <<>>

\* enum: ['pending', 'in-progress', 'completed']
StatusErrors(fields) ==
    IF Has(fields, "status") /\ fields["status"] \notin Statuses
    THEN <<"status is not a valid enum value">> ELSE <<>>

\* Task.create(fields): cast, apply setters and defaults, validate, insert
\* with timestamps.  error is the ValidationError message when it throws.
TaskCreate(T, fields, now) ==
    LET errors ==
            (IF ~Has(fields, "title") THEN <<"Please add a title">> ELSE <<>>)
            \o TitleErrors(fields) \o StatusErrors(fields)
        doc == [user |-> fields["user"],
                title |-> Trim(fields["title"]),
                description |-> IF Has(fields, "description")
                                THEN Some(fields["description"]) ELSE None,
                status |-> IF Has(fields, "status")
                           THEN fields["status"] ELSE "pending",
                dueDate |-> IF Has(fields, "dueDate")
                            THEN Some(fields["dueDate"]) ELSE None,
                isDeleted |-> FALSE,
                createdAt |-> now,
                updatedAt |-> now]
    IN  IF errors # <<>>
        THEN [error |-> Some(errors[1]), tasks |-> T, id |-> 0]
        ELSE [error |-> None, tasks |-> Append(T, doc), id |-> Len(T) + 1]

\* Mutant: the filter without isDeleted: false.
MatchesFilterDeletedToo(T, i, id, user, status) ==
    /\ id # None => ObjectIdOf(i) = CastObjectId(id[1])
    /\ T[i].user = user
    /\ Len(status) = 1 => T[i].status = status[1]
    /\ Len(status) = 2 => T[i].status # status[2]

\* Mutant: the filter without the owner (findById as in the first controller).
MatchesFilterAnyOwner(T, i, id, user, status) ==
    /\ id # None => ObjectIdOf(i) = CastObjectId(id[1])
    /\ ~T[i].isDeleted
    /\ Len(status) = 1 => T[i].status = status[1]
    /\ Len(status) = 2 => T[i].status # status[2]

\* The documents a filter {_id?, user, isDeleted: false, status?} selects.
\* id is None or Some(ObjectId string); status is None, Some(s) for equality
\* or <<"$ne", s>>.
MatchesFilter(T, i, id, user, status) ==
    /\ id # None => ObjectIdOf(i) = CastObjectId(id[1])
    /\ T[i].user = user
    /\ ~T[i].isDeleted
    /\ Len(status) = 1 => T[i].status = status[1]
    /\ Len(status) = 2 => T[i].status # status[2]

Selected(T, id, user, status) ==
    {i \in DOMAIN T : MatchesFilter(T, i, id, user, status)}

\* Mutant: the update replaces the document instead of $set-ing the given
\* fields: what the update does not carry falls back to its default.
ApplyReplace(doc, set, now) ==
    [doc EXCEPT
        !.title = IF Has(set, "title") THEN Trim(set["title"]) ELSE @,
        !.description = IF Has(set, "description")
                        THEN Some(set["description"]) ELSE None,
        !.status = IF Has(set, "status") THEN set["status"] ELSE "pending",
        !.dueDate = IF Has(set, "dueDate") THEN Some(set["dueDate"]) ELSE None,
        !.isDeleted = IF Has(set, "isDeleted") THEN set["isDeleted"] ELSE FALSE,
        !.createdAt = now,
        !.updatedAt = now]

\* Mutant: $set without the title's trim setter.
ApplySetUntrimmed(doc, set, now) ==
    [doc EXCEPT
        !.user = IF Has(set, "user") THEN set["user"] ELSE @,
        !.title = IF Has(set, "title") THEN set["title"] ELSE @,
        !.description = IF Has(set, "description")
                        THEN Some(set["description"]) ELSE @,
        !.status = IF Has(set, "status") THEN set["status"] ELSE @,
        !.dueDate = IF Has(set, "dueDate") THEN Some(set["dueDate"]) ELSE @,
        !.isDeleted = IF Has(set, "isDeleted") THEN set["isDeleted"] ELSE @,
        !.updatedAt = now]

\* $set of the given fields on one document, with the timestamps plugin's
\* updatedAt; the title goes through the trim setter.
ApplySet(doc, set, now) ==
    [doc EXCEPT
        !.user = IF Has(set, "user") THEN set["user"] ELSE @,
        !.title = IF Has(set, "title") THEN Trim(set["title"]) ELSE @,
        !.description = IF Has(set, "description")
                        THEN Some(set["description"]) ELSE @,
        !.status = IF Has(set, "status") THEN set["status"] ELSE @,
        !.dueDate = IF Has(set, "dueDate") THEN Some(set["dueDate"]) ELSE @,
        !.isDeleted = IF Has(set, "isDeleted") THEN set["isDeleted"] ELSE @,
        !.updatedAt = now]

\* Task.findOneAndUpdate(filter, {$set}, {new: true, runValidators: true}):
\* keys whose value is undefined are not part of $set; the update validators
\* run before the storage operation; the match and the write are one
\* storage operation.
findOneAndUpdate(T, id, user, set, now) ==
    LET errors == TitleErrors(set) \o StatusErrors(set)
        sel == Selected(T, Some(id), user, None)
    IN  IF errors # <<>>
        THEN [error |-> Some(errors[1]), tasks |-> T, id |-> 0]
        ELSE IF sel = {}
        THEN [error |-> None, tasks |-> T, id |-> 0]
        ELSE LET i == CHOOSE j \in sel : TRUE
             IN  [error |-> None, id |-> i,
                  tasks |-> [T EXCEPT ![i] = ApplySet(T[i], set, now)]]

\* Task.updateMany(filter, update) / Task.updateOne(filter, update)
updateMany(T, sel, set, now) ==
    [tasks |-> [i \in DOMAIN T |->
                   IF i \in sel THEN ApplySet(T[i], set, now) ELSE T[i]],
     matchedCount |-> Cardinality(sel),
     modifiedCount |-> Cardinality(sel)]

----------------------------------------------------------------------------
(* TaskStore: controllers/taskController.js.  Each controller maps the     *)
(* resolved user, the request the resolver left, the collection and the    *)
(* time of the write to the new collection and the response.               *)

Out(T, response) == [tasks |-> T, res |-> response]

NotFound == errorHandler(404, "Error", "Task not found")

\* Characters the model's strings are written with, lower-cased.
LowerChar(c) == LowerHexChar(c)
ToLowerCase(s) == [k \in 1..Len(s) |-> LowerChar(s[k])]

\* The words of a string, as $text tokenises it.
RECURSIVE WordsFrom(_, _)
WordsFrom(s, cur) ==
    IF s = <<>> THEN (IF cur = <<>> THEN {} ELSE {cur})
    ELSE IF Head(s) = " "
         THEN (IF cur = <<>> THEN {} ELSE {cur}) \cup WordsFrom(Tail(s), <<>>)
         ELSE WordsFrom(Tail(s), Append(cur, Head(s)))

Words(s) == WordsFrom(ToLowerCase(s), <<>>)

\* {$text: {$search}} over the text index on title: some search term is a
\* word of the title.
TextMatch(title, search) == Words(title) \cap Words(search) # {}

\* getTasks: the filter built from req.user and req.query
ListMatches(T, i, user, q) ==
    /\ MatchesFilter(T, i, None, user,
                     IF Has(q, "status") THEN Some(q["status"]) ELSE None)
    /\ (Has(q, "search") /\ q["search"] # <<>>)
           => TextMatch(T[i].title, q["search"])

ListPage(q) == IF Has(q, "page") /\ q["page"] # 0 THEN q["page"] ELSE 1

\* Mutant: the limit as requested, without Math.min.
ListLimitUnclamped(q) ==
    IF Has(q, "limit") /\ q["limit"] # 0 THEN q["limit"] ELSE DefaultLimit

ListLimit(q) ==
    IF Has(q, "limit") /\ q["limit"] # 0
    THEN Min(q["limit"], MaxPaginationLimit)
    ELSE DefaultLimit

\* .sort({createdAt: -1}): newest first.  The store does not say in which
\* order it returns documents of equal createdAt; ties is the order one
\* query happens to get.
TieOrders == {"later insert first", "earlier insert first"}

Newer(T, i, j, ties) ==
    \/ T[i].createdAt > T[j].createdAt
    \/ /\ T[i].createdAt = T[j].createdAt
       /\ IF ties = "later insert first" THEN i > j ELSE i < j

RECURSIVE SortNewestFirst(_, _, _)
SortNewestFirst(T, ids, ties) ==
    IF ids = {} THEN <<>>
    ELSE LET top == CHOOSE i \in ids : \A j \in ids \ {i} : Newer(T, i, j, ties)
         IN  <<top>> \o SortNewestFirst(T, ids \ {top}, ties)

\* Mutant: skip = page * limit.
FindPageSkipsPage(T, user, q, ties) ==
    LET sorted == SortNewestFirst(T, {i \in DOMAIN T : ListMatches(T, i, user, q)}, ties)
        skip == ListPage(q) * ListLimit(q)
        ids == SubSeq(sorted, skip + 1, Min(skip + ListLimit(q), Len(sorted)))
    IN  [k \in 1..Len(ids) |-> View(T, ids[k])]

\* Task.find(filter).sort({createdAt: -1}).skip(skip).limit(limit).lean()
FindPage(T, user, q, ties) ==
    LET sorted == SortNewestFirst(T, {i \in DOMAIN T : ListMatches(T, i, user, q)}, ties)
        skip == (ListPage(q) - 1) * ListLimit(q)
        ids == SubSeq(sorted, skip + 1, Min(skip + ListLimit(q), Len(sorted)))
    IN  [k \in 1..Len(ids) |-> View(T, ids[k])]

\* Task.countDocuments(filter)
CountDocuments(T, user, q) ==
    Cardinality({i \in DOMAIN T : ListMatches(T, i, user, q)})

\* Mutant: Math.floor in place of Math.ceil.
TotalPagesFloor(total, limit) == Max(1, total \div limit)

\* Math.max(1, Math.ceil(total / limit))
TotalPages(total, limit) == Max(1, (total + limit - 1) \div limit)

Meta(count, total, page, pages) ==
    Some([count |-> count, total |-> total, page |-> page, pages |-> pages])

\* getTasks after Promise.all: the response from the page and the count
\* Mutant: meta.count is the page size asked for, not tasks.length.
ListResponseCountsLimit(q, page, total) ==
    LET totalPages == TotalPages(total, ListLimit(q))
    IN  IF ListPage(q) > 1 /\ ListPage(q) > totalPages
        THEN Success(200, <<>>, Meta(0, total, ListPage(q), totalPages),
                     None, <<>>)
        ELSE Success(200, page, Meta(ListLimit(q), total, ListPage(q), totalPages),
                     None, <<>>)

ListResponse(q, page, total) ==
    LET totalPages == TotalPages(total, ListLimit(q))
    IN  IF ListPage(q) > 1 /\ ListPage(q) > totalPages
        THEN Success(200, <<>>, Meta(0, total, ListPage(q), totalPages),
                     None, <<>>)
        ELSE Success(200, page, Meta(Len(page), total, ListPage(q), totalPages),
                     None, <<>>)

\* getTasks run without interruption, on a collection whose documents were
\* each created by a request of their own (no two createdAt are equal).
getTasks(user, r, T, now) ==
    Out(T, ListResponse(r.query,
                        FindPage(T, user, r.query, "later insert first"),
                        CountDocuments(T, user, r.query)))

getTaskById(user, r, T, now) ==
    LET sel == Selected(T, Some(r.id), user, None)
    IN  IF sel = {} THEN Out(T, NotFound)
        ELSE Out(T, Success(200, <<View(T, CHOOSE i \in sel : TRUE)>>,
                            None, None, <<>>))

\* The keys of an object that hold a value (the others are undefined).
Pick(obj, keys) == [k \in (DOMAIN obj) \cap keys |-> obj[k]]

\* Mutant: the owner is not req.user._id but one fixed account.
createTaskFixedOwner(user, r, T, now) ==
    LET c == TaskCreate(T, ("user" :> "u1") @@ Pick(r.body, AllowedFields), now)
    IN  IF c.error # None
        THEN Out(T, errorHandler(200, "ValidationError", c.error[1]))
        ELSE Out(c.tasks, Success(201, <<View(c.tasks, c.id)>>, None, None, <<>>))

createTask(user, r, T, now) ==
    LET c == TaskCreate(T, ("user" :> user) @@ Pick(r.body, AllowedFields), now)
    IN  IF c.error # None
        THEN Out(T, errorHandler(200, "ValidationError", c.error[1]))
        ELSE Out(c.tasks, Success(201, <<View(c.tasks, c.id)>>, None, None, <<>>))

updateTask(user, r, T, now) ==
    LET u == findOneAndUpdate(T, r.id, user, Pick(r.body, AllowedFields), now)
    IN  IF u.error # None
        THEN Out(T, errorHandler(200, "ValidationError", u.error[1]))
        ELSE IF u.id = 0 THEN Out(T, NotFound)
        ELSE Out(u.tasks, Success(200, <<View(u.tasks, u.id)>>, None, None, <<>>))

patchTask(user, r, T, now) ==
    LET fieldsToUpdate == Pick(r.body, AllowedFields)
        u == findOneAndUpdate(T, r.id, user, fieldsToUpdate, now)
    IN  IF DOMAIN fieldsToUpdate = {}
        THEN Out(T, errorHandler(400, "Error", "No valid fields provided for update"))
        ELSE IF u.error # None
        THEN Out(T, errorHandler(200, "ValidationError", u.error[1]))
        ELSE IF u.id = 0 THEN Out(T, NotFound)
        ELSE Out(u.tasks, Success(200, <<View(u.tasks, u.id)>>, None, None, <<>>))

\* Mutant: the filter of updateMany without isDeleted: false.
completeAllTasksDeletedToo(user, r, T, now) ==
    LET sel == {i \in DOMAIN T : T[i].user = user /\ T[i].status # "completed"}
        u == updateMany(T, sel, [status |-> "completed"], now)
    IN  Out(u.tasks, Success(200, <<>>, None, Some(u.modifiedCount), <<>>))

completeAllTasks(user, r, T, now) ==
    LET u == updateMany(T, Selected(T, None, user, <<"$ne", "completed">>),
                        [status |-> "completed"], now)
    IN  Out(u.tasks, Success(200, <<>>, None, Some(u.modifiedCount), <<>>))

\* Mutant: the filter of updateOne without isDeleted: false.
deleteTaskDeletedToo(user, r, T, now) ==
    LET sel == {i \in DOMAIN T :
                   ObjectIdOf(i) = CastObjectId(r.id) /\ T[i].user = user}
        u == updateMany(T, sel, [isDeleted |-> TRUE], now)
    IN  IF u.matchedCount = 0 THEN Out(T, NotFound)
        ELSE Out(u.tasks, Success(200, <<>>, None, None, r.id))

deleteTask(user, r, T, now) ==
    LET u == updateMany(T, Selected(T, Some(r.id), user, None),
                        [isDeleted |-> TRUE], now)
    IN  IF u.matchedCount = 0 THEN Out(T, NotFound)
        ELSE Out(u.tasks, Success(200, <<>>, None, None, r.id))

\* Mutant: the bulk delete without status in its filter.
deleteTasksByStatusAnyStatus(user, r, T, now) ==
    LET u == updateMany(T, Selected(T, None, user, None),
                        [isDeleted |-> TRUE], now)
    IN  Out(u.tasks, Success(200, <<>>, None, Some(u.modifiedCount), <<>>))

deleteTasksByStatus(user, r, T, now) ==
    LET status == IF Has(r.query, "status") THEN Some(r.query["status"]) ELSE None
        u == updateMany(T, Selected(T, None, user, status),
                        [isDeleted |-> TRUE], now)
    IN  Out(u.tasks, Success(200, <<>>, None, Some(u.modifiedCount), <<>>))

\* Mutant: the task is created without status: 'in-progress'.
quickTaskFlowDefaultStatus(user, r, T, now) ==
    LET c == TaskCreate(T, ("user" :> user) @@ Pick(r.body, {"title"}), now)
    IN  IF c.error # None
        THEN Out(T, errorHandler(200, "ValidationError", c.error[1]))
        ELSE Out(c.tasks, Success(201, <<View(c.tasks, c.id)>>, None, None, <<>>))

quickTaskFlow(user, r, T, now) ==
    LET c == TaskCreate(T, ("user" :> user) @@ Pick(r.body, {"title"})
                              @@ ("status" :> "in-progress"), now)
    IN  IF c.error # None
        THEN Out(T, errorHandler(200, "ValidationError", c.error[1]))
        ELSE Out(c.tasks, Success(201, <<View(c.tasks, c.id)>>, None, None, <<>>))

----------------------------------------------------------------------------
(* RequestPipeline: routes/taskRoutes.js.  router.use(protect) runs first, *)
(* then the route's zodResolver, then the controller.                      *)

\* The schema each route hands to zodResolver.
RouteSchema(r) ==
    CASE r.op = "getTasks"            -> getTasksSchema(r)
      [] r.op = "createTask"          -> createTaskSchema(r)
      [] r.op = "deleteTasksByStatus" -> deleteTasksByStatusSchema(r)
      [] r.op = "quickTaskFlow"       -> quickTaskSchema(r)
      [] r.op = "completeAllTasks"    -> emptySchema(r)
      [] r.op = "updateTask"          -> updateTaskSchema(r)
      [] r.op = "patchTask"           -> patchTaskSchema(r)
      [] OTHER                        -> taskIdParamSchema(r)

\* The controller each route ends in.
RouteController(user, r, T, now) ==
    CASE r.op = "getTasks"            -> getTasks(user, r, T, now)
      [] r.op = "getTaskById"         -> getTaskById(user, r, T, now)
      [] r.op = "createTask"          -> createTask(user, r, T, now)
      [] r.op = "updateTask"          -> updateTask(user, r, T, now)
      [] r.op = "patchTask"           -> patchTask(user, r, T, now)
      [] r.op = "completeAllTasks"    -> completeAllTasks(user, r, T, now)
      [] r.op = "deleteTask"          -> deleteTask(user, r, T, now)
      [] r.op = "deleteTasksByStatus" -> deleteTasksByStatus(user, r, T, now)
      [] r.op = "quickTaskFlow"       -> quickTaskFlow(user, r, T, now)

\* Mutant: the routes without zodResolver.
PipelineUnvalidated(r) ==
    LET a == protect(r.header, users)
    IN  IF ~a.ok THEN Out(tasks, a.res)
        ELSE RouteController(a.user[1], r, tasks, clock + 1)

\* Mutant: the route's zodResolver mounted ahead of protect.
PipelineValidatesFirst(r) ==
    LET a == protect(r.header, users)
        v == zodResolver(RouteSchema(r), r)
    IN  IF ~v.ok THEN Out(tasks, v.res)
        ELSE IF ~a.ok THEN Out(tasks, a.res)
        ELSE RouteController(a.user[1], v.req, tasks, clock + 1)

Pipeline(r) ==
    LET a == protect(r.header, users)
        v == zodResolver(RouteSchema(r), r)
    IN  IF ~a.ok THEN Out(tasks, a.res)
        ELSE IF ~v.ok THEN Out(tasks, v.res)
        ELSE RouteController(a.user[1], v.req, tasks, clock + 1)

\* getTasks between its arrival and its response: the caller, the sanitized
\* request, and what each of the two reads of Promise.all has returned so
\* far.  dirty records that a write landed after the first read.
ListCall(pc, user, r, page, total, dirty) ==
    [pc |-> pc, user |-> user, r |-> r, page |-> page, total |-> total,
     dirty |-> dirty]

NoList == ListCall("idle", "", NoReq, None, None, FALSE)

BetweenReads(l) == l.pc = "reading" /\ (l.page # None \/ l.total # None)

EmptyObj == [k \in {} |-> 0]

\* One request, from its arrival to its response.
Answer(r, out) ==
    /\ out.tasks # tasks => clock < MaxClock
    /\ Len(out.tasks) > Len(tasks) => Len(out.tasks) <= MaxTasks
    /\ tasks' = out.tasks
    /\ clock' = IF out.tasks # tasks THEN clock + 1 ELSE clock
    /\ req' = r
    /\ res' = out.res
    /\ list' = IF out.tasks # tasks /\ BetweenReads(list)
               THEN [list EXCEPT !.dirty = TRUE] ELSE list
    /\ UNCHANGED <<users, reg, hits>>

\* req and res hold an exchange until the client has read it (Forget) or
\* follows it up (ReadBack).
Step(r, out) == req = NoReq /\ Answer(r, out)

\* The client that has just patched a task reads that task back:
\* GET /api/tasks/:id with the id and the header of the patch.
ReadBack ==
    /\ req.op = "patchTask"
    /\ LET r == Request("getTaskById", req.header, req.id, EmptyObj, EmptyObj)
       IN  Answer(r, Pipeline(r))

\* The client has read the response; the exchange is over.
Forget ==
    /\ req # NoReq
    /\ req' = NoReq
    /\ res' = NoRes
    /\ UNCHANGED <<users, tasks, clock, reg, hits, list>>

\* router.route('/').get(zodResolver(getTasksSchema), getTasks)
GetTasks(h, q) ==
    LET r == Request("getTasks", h, <<>>, EmptyObj, q)
    IN  Step(r, Pipeline(r))

\* router.route('/:id').get(zodResolver(taskIdParamSchema), getTaskById)
GetTaskById(h, id) ==
    LET r == Request("getTaskById", h, id, EmptyObj, EmptyObj)
    IN  Step(r, Pipeline(r))

\* router.route('/').post(zodResolver(createTaskSchema), createTask)
CreateTask(h, b) ==
    LET r == Request("createTask", h, <<>>, b, EmptyObj)
    IN  Step(r, Pipeline(r))

\* router.route('/:id').put(zodResolver(updateTaskSchema), updateTask)
UpdateTask(h, id, b) ==
    LET r == Request("updateTask", h, id, b, EmptyObj)
    IN  Step(r, Pipeline(r))

\* router.route('/:id').patch(zodResolver(patchTaskSchema), patchTask)
PatchTask(h, id, b) ==
    LET r == Request("patchTask", h, id, b, EmptyObj)
    IN  Step(r, Pipeline(r))

\* router.patch('/complete-all', zodResolver(z.object({})), completeAllTasks)
CompleteAllTasks(h) ==
    LET r == Request("completeAllTasks", h, <<>>, EmptyObj, EmptyObj)
    IN  Step(r, Pipeline(r))

\* router.route('/:id').delete(zodResolver(taskIdParamSchema), deleteTask)
DeleteTask(h, id) ==
    LET r == Request("deleteTask", h, id, EmptyObj, EmptyObj)
    IN  Step(r, Pipeline(r))

\* router.route('/').delete(zodResolver(deleteTasksByStatusSchema), ...)
DeleteTasksByStatus(h, q) ==
    LET r == Request("deleteTasksByStatus", h, <<>>, EmptyObj, q)
    IN  Step(r, Pipeline(r))

\* router.post('/quick', zodResolver(quickTaskSchema), quickTaskFlow)
QuickTaskFlow(h, b) ==
    LET r == Request("quickTaskFlow", h, <<>>, b, EmptyObj)
    IN  Step(r, Pipeline(r))

----------------------------------------------------------------------------
(* The requests the specifications draw from *)

U1 == "u1"
U2 == "u2"

GoodPassword == <<"s", "e", "c", "r", "e", "t">>

\* userSchema.pre('save'): bcrypt.hash(password, salt)
Hash(password) == <<"$2a$10$">> \o password

\* bcrypt.compare(password, user.password)
Compare(password, hash) == hash = Hash(password)

\* The account of someone registered as "n" with the password GoodPassword.
UserDoc(id, email) ==
    [id |-> id, name |-> <<"n">>, email |-> email,
     password |-> Hash(GoodPassword)]

EmailA == <<"a", "@", "x", ".", "i", "o">>
EmailB == <<"b", "@", "x", ".", "i", "o">>

ValidToken(u) == Token(u, "valid", "HS256", FALSE)

\* Two registered users, each holding a token signed for them.
Callers == {Bearer(ValidToken(U1)), Bearer(ValidToken(U2))}

TitleA == <<"a">>
TitleB == <<"b">>
TitlePadded == <<" ", "b">>
TitleBlank == <<" ">>

ShortId == <<"1", "2", "3">>
NonHexId == [k \in 1..IdLen |-> IF k = IdLen THEN "g" ELSE "0"]

TaskIds == {ObjectIdOf(i) : i \in 1..MaxTasks} \cup {ShortId, NonHexId}

CreateBodies ==
    { ("title" :> TitleB) @@ ("description" :> "d1")
          @@ ("dueDate" :> "2025-12-31") @@ ("user" :> U2) @@ ("isDeleted" :> TRUE),
      "description" :> "d1" }

QuickBodies ==
    { ("title" :> TitleA) @@ ("status" :> "completed") @@ ("description" :> "d1")
          @@ ("dueDate" :> "2025-12-31") @@ ("user" :> U2) @@ ("isDeleted" :> TRUE),
      EmptyObj }

UpdateBodies ==
    { ("title" :> TitleB) @@ ("description" :> "d2") @@ ("status" :> "in-progress")
          @@ ("dueDate" :> "2026-01-15"),
      "title" :> TitleA }

PatchBodies ==
    { "status" :> "completed",
      ("title" :> TitlePadded) @@ ("user" :> U2) @@ ("isDeleted" :> TRUE)
          @@ ("createdAt" :> 0) @@ ("updatedAt" :> 0),
      ("description" :> "d2") @@ ("dueDate" :> "2026-01-15"),
      ("user" :> U2) @@ ("isDeleted" :> TRUE) @@ ("createdAt" :> 0),
      "title" :> TitleBlank,
      EmptyObj }

DeleteQueries ==
    { ("status" :> "pending") @@ ("confirm" :> "true"),
      ("status" :> "completed") @@ ("confirm" :> "true"),
      "status" :> "pending",
      ("status" :> "pending") @@ ("confirm" :> "false"),
      ("status" :> "completed") @@ ("confirm" :> "1") }

ListQueries ==
    { EmptyObj,
      "status" :> "completed",
      ("page" :> <<"2">>) @@ ("limit" :> <<"1">>),
      "search" :> TitleB }

----------------------------------------------------------------------------
(* Spec: the task routes, called by two registered users *)

Init ==
    /\ users = {UserDoc(U1, EmailA), UserDoc(U2, EmailB)}
    /\ tasks = <<>>
    /\ clock = 0
    /\ req = NoReq
    /\ res = NoRes
    /\ reg = [p \in 1..NumRegs |-> IdleReg]
    /\ hits = 0
    /\ list = NoList

Next ==
    \/ \E h \in Callers, q \in ListQueries : GetTasks(h, q)
    \/ \E h \in Callers, id \in TaskIds \ {ShortId} : GetTaskById(h, id)
    \/ \E h \in Callers, b \in CreateBodies : CreateTask(h, b)
    \/ \E h \in Callers, id \in TaskIds \ {ShortId}, b \in UpdateBodies : UpdateTask(h, id, b)
    \/ \E h \in Callers, id \in TaskIds \ {ShortId}, b \in PatchBodies : PatchTask(h, id, b)
    \/ \E h \in Callers : CompleteAllTasks(h)
    \/ \E h \in Callers, id \in TaskIds \ {ShortId} : DeleteTask(h, id)
    \/ \E h \in Callers, q \in DeleteQueries : DeleteTasksByStatus(h, q)
    \/ \E h \in Callers, b \in QuickBodies : QuickTaskFlow(h, b)
    \/ Forget

Spec == Init /\ [][Next]_vars

----------------------------------------------------------------------------
(* What the claims speak about *)

\* The user a request is authenticated as (None when protect rejects it).
CallerOf(r) == protect(r.header, users).user

Authenticated(r) == CallerOf(r) # None

\* The document a request's :id names, if the collection holds it.
TargetOf(T, r) == {i \in DOMAIN T : ObjectIdOf(i) = CastObjectId(r.id)}

IdOps == {"getTaskById", "updateTask", "patchTask", "deleteTask"}

\* The request is one its route's schema and the model's validators accept.
WellFormed(r) == RouteSchema(r).ok /\ TitleErrors(r.body) = <<>>

\* The ids of the documents a response carries.
DataIds(response) == {response.data[k].id : k \in 1..Len(response.data)}

----------------------------------------------------------------------------
(* C1 *)

\* C1: ownership isolation.  When an authenticated user B issues getById,
\* replace, patch or softDelete on the id of a task owned by another user A,
\* the answer is 404 (400 only when the request itself is malformed), it
\* carries none of the task's data, and the stored record is unchanged.
C1_OwnershipIsolation ==
    [][\A i \in DOMAIN tasks :
          (/\ req'.op \in IdOps
           /\ i \in TargetOf(tasks, req')
           /\ Authenticated(req')
           /\ CallerOf(req')[1] # tasks[i].user)
          => /\ tasks' = tasks
             /\ ~res'.success
             /\ res'.data = <<>>
             /\ res'.id = <<>>
             /\ IF WellFormed(req') THEN res'.status = 404
                                    ELSE res'.status = 400]_vars

\* A well-formed PATCH by another user on a live task has been answered 404.
C1_Witness ==
    \E i \in DOMAIN tasks :
        /\ req.op = "patchTask"
        /\ i \in TargetOf(tasks, req)
        /\ WellFormed(req)
        /\ CallerOf(req)[1] # tasks[i].user
        /\ ~tasks[i].isDeleted
        /\ res.status = 404

----------------------------------------------------------------------------
(* C2 *)

\* What a soft-deleted task looks like to the caller in the state after a
\* request: absent from a list response, and not-found for getById.
DeletedIsHidden ==
    /\ req.op = "getTasks" =>
          \A i \in DataIds(res) : ~tasks[i].isDeleted
    /\ \A i \in DOMAIN tasks :
          (/\ req.op = "getTaskById"
           /\ i \in TargetOf(tasks, req)
           /\ Authenticated(req)
           /\ tasks[i].isDeleted)
          => res.status = 404 /\ res.data = <<>>

\* C2: after any sequence of user-facing operations a soft-deleted task is in
\* no list response and getById on it answers 404, while its record stays in
\* storage: no operation removes a record or sets isDeleted back to false.
C2_SoftDeletedHidden ==
    [][/\ DeletedIsHidden'
       /\ Len(tasks') >= Len(tasks)
       /\ \A i \in DOMAIN tasks :
             /\ tasks'[i].createdAt = tasks[i].createdAt
             /\ tasks[i].isDeleted => tasks'[i].isDeleted]_vars

\* A list was answered for a caller who has a soft-deleted task and a live
\* one: the response has data, and the deleted record is still stored.
C2_Witness ==
    /\ req.op = "getTasks"
    /\ res.status = 200
    /\ res.data # <<>>
    /\ DOMAIN req.query = {}
    /\ \E i \in DOMAIN tasks :
          tasks[i].isDeleted /\ tasks[i].user = CallerOf(req)[1]

----------------------------------------------------------------------------
(* C3 *)

\* The value a whitelisted body field is stored as.
StoredValue(b, k) ==
    CASE k = "title"   -> Trim(b[k])
      [] k = "dueDate" -> Some(CoerceDate(b[k]))
      [] k = "status"  -> b[k]
      [] OTHER         -> Some(b[k])

FieldOf(doc, k) ==
    CASE k = "title"       -> doc.title
      [] k = "description" -> doc.description
      [] k = "status"      -> doc.status
      [] k = "dueDate"     -> doc.dueDate

\* C3: a patch on an owned, non-deleted task changes only the whitelisted
\* fields present in the body (and updatedAt): user, isDeleted, createdAt or
\* updatedAt values in the body are dropped, the stored owner, isDeleted and
\* createdAt keep their values, and every other document is untouched.
C3_PatchWhitelist ==
    [][\A i \in DOMAIN tasks :
          (/\ req'.op = "patchTask"
           /\ i \in TargetOf(tasks, req')
           /\ Authenticated(req')
           /\ CallerOf(req')[1] = tasks[i].user
           /\ ~tasks[i].isDeleted)
          => /\ Len(tasks') = Len(tasks)
             /\ \A j \in DOMAIN tasks : j # i => tasks'[j] = tasks[j]
             /\ tasks'[i].user = tasks[i].user
             /\ tasks'[i].isDeleted = tasks[i].isDeleted
             /\ tasks'[i].createdAt = tasks[i].createdAt
             /\ IF res'.success
                THEN /\ \A k \in AllowedFields :
                          FieldOf(tasks'[i], k) =
                              IF Has(req'.body, k) THEN StoredValue(req'.body, k)
                              ELSE FieldOf(tasks[i], k)
                     /\ tasks'[i].updatedAt = clock'
                     /\ tasks'[i].updatedAt > tasks[i].updatedAt
                ELSE tasks'[i] = tasks[i]]_vars

\* A patch carrying a title together with user, isDeleted, createdAt and
\* updatedAt has been applied to the caller's task.
C3_Witness ==
    \E i \in DOMAIN tasks :
        /\ req.op = "patchTask"
        /\ i \in TargetOf(tasks, req)
        /\ res.status = 200
        /\ {"title", "user", "isDeleted", "createdAt", "updatedAt"}
              \subseteq DOMAIN req.body
        /\ tasks[i].title = Trim(req.body["title"])
        /\ tasks[i].user = CallerOf(req)[1]
        /\ tasks[i].user # req.body["user"]

----------------------------------------------------------------------------
(* C4 *)

RefineIssue == Issue("body", "At least one field must be provided for update")

\* C4: a patch whose body has no whitelisted field (empty, or only fields
\* such as user and isDeleted) is answered 400 'Validation failed' by the
\* schema, and no task record changes.
C4_EmptyPatchRejected ==
    [][(/\ req'.op = "patchTask"
        /\ Authenticated(req')
        /\ DOMAIN req'.body \cap AllowedFields = {})
       => /\ res'.status = 400
          /\ ~res'.success
          /\ res'.message = "Validation failed"
          /\ \E k \in 1..Len(res'.details) : res'.details[k] = RefineIssue
          /\ tasks' = tasks]_vars

\* A patch carrying only user, isDeleted and createdAt, aimed at the caller's
\* own live task, has been answered 400.
C4_Witness ==
    \E i \in DOMAIN tasks :
        /\ req.op = "patchTask"
        /\ i \in TargetOf(tasks, req)
        /\ tasks[i].user = CallerOf(req)[1]
        /\ ~tasks[i].isDeleted
        /\ DOMAIN req.body # {}
        /\ DOMAIN req.body \cap AllowedFields = {}
        /\ res.status = 400

----------------------------------------------------------------------------
(* C5 *)

Confirmed(q) == Has(q, "confirm") /\ q["confirm"] = "true"

\* C5: a bulk delete by status whose query does not carry confirm=true
\* (absent, or any other value) is answered 400 'Validation failed' and
\* changes no task record.
C5_BulkDeleteNeedsConfirm ==
    [][(/\ req'.op = "deleteTasksByStatus"
        /\ Authenticated(req')
        /\ ~Confirmed(req'.query))
       => /\ res'.status = 400
          /\ ~res'.success
          /\ res'.message = "Validation failed"
          /\ tasks' = tasks]_vars

\* A bulk delete with a valid status and confirm=false was refused while the
\* caller had a live task of that status.
C5_Witness ==
    /\ req.op = "deleteTasksByStatus"
    /\ Has(req.query, "confirm")
    /\ ~Confirmed(req.query)
    /\ res.status = 400
    /\ \E i \in DOMAIN tasks :
          /\ tasks[i].user = CallerOf(req)[1]
          /\ ~tasks[i].isDeleted
          /\ tasks[i].status = req.query["status"]

----------------------------------------------------------------------------
(* SpecAuth: the task routes behind protect, with every kind of           *)
(* Authorization header, while user accounts are being deleted            *)

\* Tokens jwt.verify refuses: a forged signature, an expired token, a token
\* of another algorithm.
BadTokens ==
    {Token(U1, "forged", "HS256", FALSE),
     Token(U1, "valid", "HS256", TRUE),
     Token(U1, "valid", "none", FALSE)}

AllHeaders ==
    Callers
      \cup {Bearer(t) : t \in BadTokens}
      \cup {<<>>, <<BearerPrefix>>,
            <<(<<"B", "a", "s", "i", "c">>), ValidToken(U1)>>}

\* User.deleteOne({_id}): the account goes, the tokens signed for it stay
\* in their holders' hands.
DeleteUser(u) ==
    /\ req = NoReq
    /\ u \in users
    /\ users' = users \ {u}
    /\ UNCHANGED <<tasks, clock, req, res, reg, hits, list>>

NextAuth ==
    \/ \E u \in users : DeleteUser(u)
    \/ \E h \in AllHeaders, q \in ListQueries : GetTasks(h, q)
    \/ \E h \in AllHeaders, id \in TaskIds : GetTaskById(h, id)
    \/ \E h \in AllHeaders, b \in CreateBodies : CreateTask(h, b)
    \/ \E h \in AllHeaders, id \in TaskIds : DeleteTask(h, id)
    \/ Forget

SpecAuth == Init /\ [][NextAuth]_vars

\* The header carries a token that jwt.verify accepts and whose subject is
\* no longer in the User collection.
DeletedSubject(h) ==
    /\ Len(h) >= 2
    /\ StartsWith(h[1], BearerPrefix)
    /\ jwtVerify(h[2])
    /\ \A u \in users : u.id # h[2].sub

\* What protect answers to a token that fails verification.
BadTokenMessages == {protect(Bearer(t), users).res.message : t \in BadTokens}

\* C6: a request bearing a validly signed, unexpired token whose user has
\* been deleted is answered 401 with the message 'User not found', which is
\* not the message a bad token gets.
C6_DeletedUserMessage ==
    (req # NoReq /\ DeletedSubject(req.header))
        => /\ res.status = 401
           /\ res.message = "User not found"
           /\ res.message \notin BadTokenMessages

\* A request with the token of a deleted user has been answered.
C6_Witness ==
    /\ req.op = "getTasks"
    /\ DeletedSubject(req.header)
    /\ res.status = 401

----------------------------------------------------------------------------
(* SpecReg: POST /api/users  (routes/userRoutes.js,                        *)
(* validations/userValidation.js, controllers/userController.js)           *)
(* Each connection sends one registration; the steps of the requests       *)
(* interleave at the awaits of registerUser.                               *)

AuthLimitMax == 5           \* authLimiter max

\* z.string().email(): no blank, one "@" with a local part before it, and a
\* domain that ends in a dot and at least two characters.
IsEmail(e) ==
    LET ats == {k \in 1..Len(e) : e[k] = "@"}
        dots == {k \in 1..Len(e) : e[k] = "."}
    IN  /\ \A k \in 1..Len(e) : e[k] # " "
        /\ Cardinality(ats) = 1
        /\ \A a \in ats :
              /\ a > 1
              /\ \E d \in dots : d > a + 1 /\ d + 2 <= Len(e)
              /\ \A d \in dots : d # a + 1 /\ d # a - 1 /\ d # 1 /\ d # Len(e)

NameIssues(b) ==
    IF ~Has(b, "name") \/ Trim(b["name"]) = <<>>
    THEN <<Issue("body.name", "Name is required")>> ELSE <<>>

EmailIssues(b) ==
    IF ~Has(b, "email") THEN <<Issue("body.email", "Email is required")>>
    ELSE IF ~IsEmail(Trim(b["email"]))
         THEN <<Issue("body.email", "Invalid email address")>>
         ELSE <<>>

PasswordIssues(b) ==
    IF ~Has(b, "password")
    THEN <<Issue("body.password", "Password is required")>>
    ELSE IF Len(b["password"]) < 6
         THEN <<Issue("body.password", "Password must be at least 6 characters")>>
         ELSE <<>>

\* registerSchema: name and email come out trimmed, unknown keys are dropped.
registerSchema(r) ==
    LET b == r.body
        issues == NameIssues(b) \o EmailIssues(b) \o PasswordIssues(b)
        kept == [k \in (DOMAIN b) \cap {"name", "email", "password"} |->
                    IF k = "password" THEN b[k] ELSE Trim(b[k])]
    IN  Parsed(issues, Some(kept), None, None)

\* The email setters of userSchema (trim: true, lowercase: true), applied to
\* documents and to query filters alike.
EmailSetter(e) == ToLowerCase(Trim(e))

\* User.findOne({email})
findOneByEmail(U, email) == {u \in U : u.email = EmailSetter(email)}

\* Mutant: the User collection without the unique index on email.
NoUniqueIndex(U, email) == FALSE

\* The unique index on email refuses a second document with the same key
\* (E11000), atomically with the insert.
DuplicateKey(U, email) == \E u \in U : u.email = email

\* The _id of the document a connection's User.create makes.
NewUserIds == <<"r1", "r2", "r3", "r4">>

\* User.create({name, email, password}): setters, then the insert.
UserCreate(U, id, fields) ==
    LET email == EmailSetter(fields["email"])
    IN  IF DuplicateKey(U, email)
        THEN [code |-> 11000, users |-> U]
        ELSE [code |-> 0,
              users |-> U \cup {[UserDoc(id, email) EXCEPT
                                   !.name = fields["name"],
                                   !.password = Hash(fields["password"])]}]

\* Error messages of registerUser, word by word.
UserAlreadyExists == <<"User", "already", "exists">>
EmailAlreadyRegistered == <<"Email", "already", "registered">>

\* router.post('/', authLimiter, zodResolver(registerSchema), registerUser),
\* up to the first await of registerUser.  authLimiter is rateLimit({max,
\* message: '...'}) without a handler: over the limit, express-rate-limit
\* sends the message string as the body.
RegArrive(p, b) ==
    LET r == Request("registerUser", <<>>, <<>>, b, EmptyObj)
        v == zodResolver(registerSchema(r), r)
    IN  /\ reg[p].pc = "idle"
        /\ hits' = Min(hits + 1, AuthLimitMax + 1)
        /\ reg' = [reg EXCEPT ![p] =
                     IF hits + 1 > AuthLimitMax
                     THEN RegCall("done", b, "authLimiter",
                                  Send(429, "Too many authentication attempts, please try again later"))
                     ELSE IF ~v.ok
                          THEN RegCall("done", b, "zodResolver", v.res)
                          ELSE RegCall("findOne", v.req.body, "", NoRes)]
        /\ UNCHANGED <<users, tasks, clock, req, res, list>>

\* const userExists = await User.findOne({email}); if (userExists) throw
RegFindOne(p) ==
    /\ reg[p].pc = "findOne"
    /\ reg' = [reg EXCEPT ![p] =
                 IF findOneByEmail(users, reg[p].body["email"]) # {}
                 THEN RegCall("done", @.body, "findOne",
                              errorHandler(400, "Error", UserAlreadyExists))
                 ELSE [@ EXCEPT !.pc = "create"]]
    /\ UNCHANGED <<users, tasks, clock, req, res, hits, list>>

\* try { await User.create(...); res.status(201).json(...) }
\* catch (err) { if (err.code === 11000) throw 'Email already registered' }
RegCreate(p) ==
    LET c == UserCreate(users, NewUserIds[p], reg[p].body)
    IN  /\ reg[p].pc = "create"
        /\ users' = c.users
        /\ reg' = [reg EXCEPT ![p] =
                     IF c.code = 11000
                     THEN RegCall("done", @.body, "create",
                                  errorHandler(400, "Error", EmailAlreadyRegistered))
                     ELSE RegCall("done", @.body, "create",
                                  Success(201,
                                          <<[id |-> NewUserIds[p],
                                             name |-> @.body["name"],
                                             email |-> EmailSetter(@.body["email"]),
                                             token |-> ValidToken(NewUserIds[p])]>>,
                                          None, None, <<>>))]
        /\ UNCHANGED <<tasks, clock, req, res, hits, list>>

EmailUpperA == <<"A", "@", "x", ".", "i", "o">>
EmailPaddedA == <<" ", "a", "@", "x", ".", "i", "o", " ">>
EmailNoAt == <<"a", "x", ".", "i", "o">>

ShortPassword == <<"p", "w">>

RegBody(email, password) ==
    ("name" :> <<"n">>) @@ ("email" :> email) @@ ("password" :> password)

RegBodies ==
    {RegBody(e, GoodPassword) : e \in {EmailA, EmailUpperA, EmailPaddedA, EmailB}}
      \cup {RegBody(EmailNoAt, GoodPassword), RegBody(EmailA, ShortPassword),
            "email" :> EmailA}

\* Nobody is registered yet, or one account exists; the limiter's window is
\* fresh, or one request short of its maximum.
InitReg ==
    /\ users \in {{}, {UserDoc(U1, EmailA)}}
    /\ hits \in {0, AuthLimitMax - 1}
    /\ tasks = <<>>
    /\ clock = 0
    /\ req = NoReq
    /\ res = NoRes
    /\ reg = [p \in 1..NumRegs |-> IdleReg]
    /\ list = NoList

NextReg ==
    \/ \E p \in 1..NumRegs, b \in RegBodies : RegArrive(p, b)
    \/ \E p \in 1..NumRegs : RegFindOne(p)
    \/ \E p \in 1..NumRegs : RegCreate(p)

SpecReg == InitReg /\ [][NextReg]_vars

----------------------------------------------------------------------------
(* C7, C8 *)

\* The requests registerUser has answered.
Handled == {p \in 1..NumRegs : reg[p].pc = "done" /\ reg[p].at \in {"findOne", "create"}}

\* The email a request asks for, as the collection keys it.
EmailOf(p) == EmailSetter(reg[p].body["email"])

Created == {p \in Handled : reg[p].res.status = 201}

\* The email belonged to an account before any of the requests arrived.
HeldBefore(e) ==
    \E u \in users : u.email = e /\ \A p \in 1..NumRegs : u.id # NewUserIds[p]

\* C7: among the registration requests for one email (compared without
\* regard to case), however their existence checks and inserts interleave,
\* exactly one is answered 201 and has created one user record, every other
\* one is answered 400, and no two user records ever hold the same email.
C7_OneRegistrationPerEmail ==
    /\ \A u \in users, v \in users : u.email = v.email => u = v
    /\ \A p \in Handled :
          /\ reg[p].res.status \in {201, 400}
          /\ reg[p].res.status = 201
                => /\ UserDoc(NewUserIds[p], EmailOf(p)) \in users
                   /\ \A q \in Created : EmailOf(q) = EmailOf(p) => q = p
          /\ ~HeldBefore(EmailOf(p))
                => \E q \in Created : EmailOf(q) = EmailOf(p)
    /\ \A u \in users :
          (\E p \in 1..NumRegs : u.id = NewUserIds[p])
             => \E p \in Created : u = UserDoc(NewUserIds[p], EmailOf(p))

\* Two requests for the same email in different case both passed the
\* existence check; the insert of one succeeded and the unique index
\* refused the other.
C7_Witness ==
    \E p \in Handled, q \in Handled :
        /\ reg[p].body["email"] # reg[q].body["email"]
        /\ EmailOf(p) = EmailOf(q)
        /\ reg[p].res.status = 201
        /\ reg[q].res.status = 400
        /\ reg[q].at = "create"

\* /already exists/ in a message given word by word.
SaysAlreadyExists(m) ==
    \E k \in 1..(Len(m) - 1) : m[k] = "already" /\ m[k + 1] = "exists"

\* C8: a registration refused because the email is taken, by the existence
\* check or by the uniqueness violation of the insert, is told a message
\* that says 'already exists'.
C8_DuplicateSaysAlreadyExists ==
    \A p \in Handled :
        reg[p].res.status = 400 => SaysAlreadyExists(reg[p].res.message)

\* A registration was refused by the existence check.
C8_Witness ==
    \E p \in Handled :
        /\ reg[p].at = "findOne"
        /\ reg[p].res.status = 400
        /\ SaysAlreadyExists(reg[p].res.message)

----------------------------------------------------------------------------
(* SpecList: GET /api/tasks read by read.  getTasks issues Task.find and   *)
(* Task.countDocuments together (Promise.all); they reach the store in     *)
(* either order, and other requests' writes may land around them.          *)

\* What zodResolver(getTasksSchema) leaves in req.query.
ListQuery(l) == zodResolver(getTasksSchema(l.r), l.r).req.query

\* router.use(protect), zodResolver(getTasksSchema), and getTasks up to its
\* await.  A request refused by either middleware is answered at once.
ListStart(h, q) ==
    LET r == Request("getTasks", h, <<>>, EmptyObj, q)
        a == protect(h, users)
        v == zodResolver(getTasksSchema(r), r)
    IN  /\ req = NoReq
        /\ list.pc = "idle"
        /\ IF ~a.ok \/ ~v.ok
           THEN /\ req' = r
                /\ res' = IF ~a.ok THEN a.res ELSE v.res
                /\ list' = NoList
           ELSE /\ list' = ListCall("reading", a.user[1], r, None, None, FALSE)
                /\ UNCHANGED <<req, res>>
        /\ UNCHANGED <<users, tasks, clock, reg, hits>>

\* Task.find(filter).sort(...).skip(skip).limit(limit).lean() reads the store.
ListFind ==
    /\ list.pc = "reading"
    /\ list.page = None
    /\ \E ties \in TieOrders :
          list' = [list EXCEPT !.page =
                     Some(FindPage(tasks, list.user, ListQuery(list), ties))]
    /\ UNCHANGED <<users, tasks, clock, req, res, reg, hits>>

\* Task.countDocuments(filter) reads the store.
ListCount ==
    /\ list.pc = "reading"
    /\ list.total = None
    /\ list' = [list EXCEPT !.total = Some(CountDocuments(tasks, list.user, ListQuery(list)))]
    /\ UNCHANGED <<users, tasks, clock, req, res, reg, hits>>

\* Both promises are settled: the rest of getTasks.
ListRespond ==
    /\ req = NoReq
    /\ list.pc = "reading"
    /\ list.page # None
    /\ list.total # None
    /\ req' = list.r
    /\ res' = ListResponse(ListQuery(list), list.page[1], list.total[1])
    /\ list' = ListCall("idle", "", NoReq, None, None, list.dirty)
    /\ UNCHANGED <<users, tasks, clock, reg, hits>>

\* The i-th of n documents, the last write at time 0.
\* "own": pending tasks of U1, created one after the other.
\* "mixed": created one after the other; every fourth belongs to U2, every
\* fifth has been soft-deleted since, statuses and titles vary.
\* "batch": tasks of U1 inserted by one Task.insertMany, all at the same
\* time, statuses in rotation.
SeedTask(i, n, pattern) ==
    LET mixed == pattern = "mixed"
        deleted == mixed /\ i % 5 = 0
        created == IF pattern = "batch" THEN 0 ELSE i - 2 * n
    IN  [user |-> IF mixed /\ i % 4 = 0 THEN U2 ELSE U1,
         title |-> IF mixed /\ i % 2 = 0 THEN TitleB ELSE TitleA,
         description |-> None,
         status |-> IF pattern = "own" THEN "pending"
                    ELSE <<"completed", "in-progress", "pending">>[(i % 3) + 1],
         dueDate |-> None,
         isDeleted |-> deleted,
         createdAt |-> created,
         updatedAt |-> IF deleted THEN i - n ELSE created]

\* page absent, 2 or 3; limit absent, 5 or 100; with or without a status
\* filter; a search; a limit the schema refuses.
PagedQueries ==
    {pg @@ lm @@ f :
        pg \in {EmptyObj, "page" :> <<"2">>, "page" :> <<"3">>},
        lm \in {EmptyObj, "limit" :> <<"5">>, "limit" :> <<"1", "0", "0">>},
        f \in {EmptyObj, "status" :> "completed"}}
      \cup {"search" :> TitleB, "limit" :> <<"0">>}

ListTaskIds == {ObjectIdOf(1), ObjectIdOf(2)}

InitList ==
    /\ users = {UserDoc(U1, EmailA), UserDoc(U2, EmailB)}
    /\ \E n \in 0..MaxListTasks, pattern \in {"own", "mixed", "batch"} :
          tasks = [i \in 1..n |-> SeedTask(i, n, pattern)]
    /\ clock = 0
    /\ req = NoReq
    /\ res = NoRes
    /\ reg = [p \in 1..NumRegs |-> IdleReg]
    /\ hits = 0
    /\ list = NoList

NextList ==
    \/ \E h \in Callers \cup {<<>>}, q \in PagedQueries : ListStart(h, q)
    \/ ListFind
    \/ ListCount
    \/ ListRespond
    \/ \E id \in ListTaskIds : DeleteTask(Bearer(ValidToken(U1)), id)
    \/ CreateTask(Bearer(ValidToken(U1)), "title" :> TitleB)
    \/ Forget

SpecList == InitList /\ [][NextList]_vars

----------------------------------------------------------------------------
(* C9, C10 *)

\* A list request has been answered with a page.
ListAnswered == req.op = "getTasks" /\ res.success

\* The page asked for and the effective page size, from the query string.
RequestedPage(q) == IF Has(q, "page") THEN CoerceNumber(q["page"]) ELSE 1

PageSize(q) ==
    IF Has(q, "limit") THEN Min(CoerceNumber(q["limit"]), MaxPaginationLimit)
    ELSE DefaultLimit

\* The caller's tasks in the store that are not deleted and match the filter.
Matching == {i \in DOMAIN tasks : ListMatches(tasks, i, CallerOf(req)[1], req.query)}

\* No write landed between the request's first read and its response.
Undisturbed == ~list.dirty

\* C9: in every list response, meta.pages is max(1, ceil(total / L)) for the
\* total it reports, which is the number of the caller's non-deleted
\* matching tasks; a page beyond meta.pages is answered 200 with an empty
\* data array, count 0 and the requested page number.
C9_PagesAndOverflow ==
    ListAnswered =>
        LET m == res.meta[1]
            L == PageSize(req.query)
        IN  /\ m.pages >= 1
            /\ m.pages * L >= m.total
            /\ m.pages > 1 => (m.pages - 1) * L < m.total
            /\ Undisturbed => m.total = Cardinality(Matching)
            /\ RequestedPage(req.query) > m.pages
                  => /\ res.status = 200
                     /\ res.data = <<>>
                     /\ m.count = 0
                     /\ m.page = RequestedPage(req.query)

\* A page beyond the last one of a non-empty result was answered empty.
C9_Witness ==
    /\ ListAnswered
    /\ res.meta[1].total > 0
    /\ res.meta[1].pages > 1
    /\ RequestedPage(req.query) > res.meta[1].pages
    /\ res.data = <<>>

\* The caller's matching tasks created after task i, or no earlier than it.
NewerThan(i) == {j \in Matching : tasks[j].createdAt > tasks[i].createdAt}

NoOlderThan(i) == {j \in Matching : tasks[j].createdAt >= tasks[i].createdAt}

\* C10: a list response for page p with page size L (10 when limit is
\* omitted), with no write in between, holds count = min(L, max(0, total -
\* (p-1)*L)) distinct tasks, and at its k-th place the task at position
\* (p-1)*L + k of the caller's non-deleted matching tasks ordered newest
\* first (tasks created at the same time share their positions).
C10_PageSlice ==
    (ListAnswered /\ Undisturbed) =>
        LET m == res.meta[1]
            L == PageSize(req.query)
            p == RequestedPage(req.query)
            total == Cardinality(Matching)
        IN  /\ m.page = p
            /\ m.count = Min(L, Max(0, total - (p - 1) * L))
            /\ Len(res.data) = m.count
            /\ ~Has(req.query, "limit") => L = 10
            /\ \A k \in 1..Len(res.data) :
                  /\ res.data[k].id \in Matching
                  /\ res.data[k] = View(tasks, res.data[k].id)
                  /\ Cardinality(NewerThan(res.data[k].id)) < (p - 1) * L + k
                  /\ (p - 1) * L + k <= Cardinality(NoOlderThan(res.data[k].id))
                  /\ \A k2 \in 1..Len(res.data) :
                        res.data[k2].id = res.data[k].id => k2 = k

\* Fifteen tasks, no query: ten items, page 1 of 2.
C10_Witness ==
    /\ ListAnswered
    /\ Undisturbed
    /\ req.query = EmptyObj
    /\ res.meta[1] = [count |-> 10, total |-> 15, page |-> 1, pages |-> 2]
    /\ Len(res.data) = 10

----------------------------------------------------------------------------
(* SpecLimit: GET /api/tasks on a collection about as large as the largest *)
(* page, asked for with limits around MAX_PAGINATION_LIMIT and around      *)
(* the schema's maximum                                                    *)

\* limit absent, 1, at and above the configured maximum, at and above the
\* schema's maximum, 0; page absent, 2 or 0.
LimitQueries ==
    {lm @@ pg :
        lm \in {EmptyObj} \cup
               {"limit" :> w : w \in {<<"1">>, <<"5", "0">>, <<"5", "1">>,
                                      <<"1", "0", "0">>, <<"1", "0", "1">>,
                                      <<"2", "0", "0">>, <<"0">>}},
        pg \in {EmptyObj, "page" :> <<"2">>, "page" :> <<"0">>}}

InitLimit ==
    /\ users = {UserDoc(U1, EmailA), UserDoc(U2, EmailB)}
    /\ \E n \in (MaxPaginationLimit - 1)..MaxLimitTasks :
          tasks = [i \in 1..n |-> SeedTask(i, n, "own")]
    /\ clock = 0
    /\ req = NoReq
    /\ res = NoRes
    /\ reg = [p \in 1..NumRegs |-> IdleReg]
    /\ hits = 0
    /\ list = NoList

NextLimit ==
    \/ \E h \in {Bearer(ValidToken(U1)), <<>>}, q \in LimitQueries : ListStart(h, q)
    \/ ListFind
    \/ ListCount
    \/ ListRespond
    \/ Forget

SpecLimit == InitLimit /\ [][NextLimit]_vars

----------------------------------------------------------------------------
(* C11, C12 *)

\* The limit and the page of a query string as numbers (absent: 1).
RequestedLimit(q) == IF Has(q, "limit") THEN CoerceNumber(q["limit"]) ELSE 1

\* An authenticated list request whose page and status are acceptable.
ListRequested ==
    /\ req.op = "getTasks"
    /\ Authenticated(req)
    /\ RequestedPage(req.query) >= 1
    /\ Has(req.query, "status") => req.query["status"] \in Statuses

\* C11 (as the code has it): a list request whose limit is above the
\* configured maximum (50) and not above the schema's maximum (100)
\* succeeds and is served with page size 50.
C11_LimitClampedUpTo100 ==
    (/\ ListRequested
     /\ RequestedLimit(req.query) > MaxPaginationLimit
     /\ RequestedLimit(req.query) <= QueryLimitMax)
        => LET m == res.meta[1]
               p == RequestedPage(req.query)
           IN  /\ res.status = 200
               /\ res.success
               /\ Len(res.data) <= 50
               /\ m.pages >= 1
               /\ m.pages * 50 >= m.total
               /\ m.pages > 1 => (m.pages - 1) * 50 < m.total
               /\ Undisturbed
                     => m.count = Min(50, Max(0, Cardinality(Matching) - (p - 1) * 50))

\* C11 (as stated): every list request whose limit is above the configured
\* maximum succeeds, whatever the value.
C11_EveryLimitAboveMaxServed ==
    (ListRequested /\ RequestedLimit(req.query) > MaxPaginationLimit)
        => res.status = 200 /\ res.success

\* 51 tasks asked for with limit=100: 50 items, page 1 of 2.
C11_Witness ==
    /\ ListRequested
    /\ RequestedLimit(req.query) = 100
    /\ res.success
    /\ res.meta[1] = [count |-> 50, total |-> 51, page |-> 1, pages |-> 2]

\* C12: a list request with limit above 100, limit below 1 or page below 1
\* is answered 400 and carries no task data.
C12_OutOfRangeRejected ==
    (/\ req.op = "getTasks"
     /\ Authenticated(req)
     /\ \/ RequestedLimit(req.query) > 100
        \/ RequestedLimit(req.query) < 1
        \/ RequestedPage(req.query) < 1)
        => /\ res.status = 400
           /\ ~res.success
           /\ res.data = <<>>
           /\ res.meta = None

\* limit=200 was refused while the caller had tasks to list.
C12_Witness ==
    /\ req.op = "getTasks"
    /\ Authenticated(req)
    /\ RequestedLimit(req.query) = 200
    /\ res.status = 400
    /\ \E i \in DOMAIN tasks : tasks[i].user = CallerOf(req)[1]

----------------------------------------------------------------------------
(* C13 *)

\* The tasks of a user that are not deleted and not completed.
Open(T, user) ==
    {i \in DOMAIN T :
        T[i].user = user /\ ~T[i].isDeleted /\ T[i].status # "completed"}

\* C13: completeAll by user A sets status to completed on exactly A's
\* non-deleted tasks that are not completed and reports their number as
\* modifiedCount; tasks of other users, A's soft-deleted tasks and A's
\* completed tasks stay as they are; afterwards every non-deleted task of A
\* is completed.
C13_CompleteAll ==
    [][(req'.op = "completeAllTasks" /\ Authenticated(req'))
       => LET A == CallerOf(req')[1]
          IN  /\ res'.status = 200
              /\ res'.modified = Some(Cardinality(Open(tasks, A)))
              /\ Len(tasks') = Len(tasks)
              /\ \A i \in DOMAIN tasks :
                    IF i \in Open(tasks, A)
                    THEN tasks'[i] = [tasks[i] EXCEPT !.status = "completed",
                                                      !.updatedAt = clock']
                    ELSE tasks'[i] = tasks[i]
              /\ \A i \in DOMAIN tasks' :
                    (tasks'[i].user = A /\ ~tasks'[i].isDeleted)
                       => tasks'[i].status = "completed"]_vars

\* completeAll has completed a task of its caller while the store held a
\* task of another user that is not completed.
C13_Witness ==
    /\ req.op = "completeAllTasks"
    /\ res.status = 200
    /\ res.modified = Some(1)
    /\ \E i \in DOMAIN tasks :
          /\ tasks[i].user = CallerOf(req)[1]
          /\ tasks[i].status = "completed"
          /\ tasks[i].updatedAt = clock
    /\ \E i \in DOMAIN tasks :
          tasks[i].user # CallerOf(req)[1] /\ tasks[i].status # "completed"

----------------------------------------------------------------------------
(* SpecEdit: PATCH, PUT and GET /api/tasks/:id by the owner of a task that *)
(* has every field set, next to a task of another user                     *)

\* A task created with title, description and dueDate.
FullTask(user, created) ==
    [user |-> user, title |-> TitleA, description |-> Some("d1"),
     status |-> "pending", dueDate |-> Some(CoerceDate("2025-12-31")),
     isDeleted |-> FALSE, createdAt |-> created, updatedAt |-> created]

\* PATCH bodies: each whitelisted field alone (a title also with blanks
\* around it, or with fields outside the whitelist), two fields, a blank
\* title.
EditPatchBodies ==
    { "title" :> TitleB,
      "title" :> TitlePadded,
      ("title" :> TitleB) @@ ("user" :> U2) @@ ("isDeleted" :> TRUE),
      "description" :> "d2",
      "status" :> "completed",
      "dueDate" :> "2026-01-15",
      ("description" :> "d2") @@ ("status" :> "in-progress"),
      "title" :> TitleBlank }

\* PUT bodies: every subset of title, description, status and dueDate.
PutBodies ==
    {t @@ d @@ st @@ du :
        t \in {EmptyObj, "title" :> TitleB},
        d \in {EmptyObj, "description" :> "d2"},
        st \in {EmptyObj, "status" :> "in-progress"},
        du \in {EmptyObj, "dueDate" :> "2026-01-15"}}

InitEdit ==
    /\ users = {UserDoc(U1, EmailA), UserDoc(U2, EmailB)}
    /\ tasks = <<FullTask(U1, 0 - 1), FullTask(U2, 0)>>
    /\ clock = 0
    /\ req = NoReq
    /\ res = NoRes
    /\ reg = [p \in 1..NumRegs |-> IdleReg]
    /\ hits = 0
    /\ list = NoList

NextEdit ==
    \/ \E id \in TaskIds, b \in EditPatchBodies :
          PatchTask(Bearer(ValidToken(U1)), id, b)
    \/ \E id \in TaskIds, b \in PutBodies :
          UpdateTask(Bearer(ValidToken(U1)), id, b)
    \/ \E id \in TaskIds : GetTaskById(Bearer(ValidToken(U1)), id)
    \/ ReadBack
    \/ Forget

SpecEdit == InitEdit /\ [][NextEdit]_vars

----------------------------------------------------------------------------
(* C14 *)

\* The next step is a successful patch of task i by its owner with exactly
\* one whitelisted field in the body.
PatchesOneField(i) ==
    /\ req'.op = "patchTask"
    /\ i \in TargetOf(tasks, req')
    /\ Authenticated(req')
    /\ CallerOf(req')[1] = tasks[i].user
    /\ ~tasks[i].isDeleted
    /\ Cardinality(DOMAIN req'.body \cap AllowedFields) = 1
    /\ res'.success

\* The next step is the getById by which the client of the successful patch
\* of task i reads the task back.
ReadsPatched(i) ==
    /\ req.op = "patchTask"
    /\ res.success
    /\ i \in TargetOf(tasks, req)
    /\ req'.op = "getTaskById"
    /\ req'.id = req.id
    /\ req'.header = req.header

\* What the patch leaves alone, and what the read after it returns.
RoundTripFrame(i) ==
    /\ PatchesOneField(i)
          => /\ \A k \in AllowedFields \ DOMAIN req'.body :
                   FieldOf(tasks'[i], k) = FieldOf(tasks[i], k)
             /\ tasks'[i].user = tasks[i].user
             /\ tasks'[i].isDeleted = tasks[i].isDeleted
             /\ tasks'[i].createdAt = tasks[i].createdAt
             /\ tasks'[i].updatedAt > tasks[i].updatedAt
             /\ res'.data = <<View(tasks', i)>>
    /\ ReadsPatched(i)
          => /\ res'.status = 200
             /\ res'.data = res.data
             /\ res'.data = <<View(tasks, i)>>
             /\ tasks' = tasks

\* C14 (as the code has it): after a patch with exactly one whitelisted
\* field, getById returns the task with that field equal to the patched
\* value as the schema stores it (a title without its surrounding blanks, a
\* dueDate as the date the string denotes), every other field, the owner,
\* isDeleted and createdAt as before, and a later updatedAt.
C14_RoundTripNormalized ==
    [][\A i \in DOMAIN tasks :
          /\ RoundTripFrame(i)
          /\ PatchesOneField(i)
                => \A k \in AllowedFields \cap DOMAIN req'.body :
                      FieldOf(tasks'[i], k) = StoredValue(req'.body, k)]_vars

\* C14 (as stated): the patched field equals the patched value itself.
C14_RoundTripLiteral ==
    [][\A i \in DOMAIN tasks :
          /\ RoundTripFrame(i)
          /\ PatchesOneField(i)
                => \A k \in AllowedFields \cap DOMAIN req'.body :
                      FieldOf(tasks'[i], k) =
                          IF k = "title" THEN req'.body[k]
                          ELSE StoredValue(req'.body, k)]_vars

\* The owner of a task with a dueDate patched its description alone and read
\* the task back: the description is the patched one, the dueDate is still
\* there.
C14_Witness ==
    \E i \in DOMAIN tasks :
        /\ req.op = "getTaskById"
        /\ res.status = 200
        /\ res.data = <<View(tasks, i)>>
        /\ tasks[i].description = Some("d2")
        /\ tasks[i].title = TitleA
        /\ tasks[i].status = "pending"
        /\ tasks[i].dueDate = Some(CoerceDate("2025-12-31"))
        /\ tasks[i].updatedAt > tasks[i].createdAt

----------------------------------------------------------------------------
(* C15 *)

\* The next step is a successful replace (PUT) of task i by its owner.
Replaces(i) ==
    /\ req'.op = "updateTask"
    /\ i \in TargetOf(tasks, req')
    /\ Authenticated(req')
    /\ CallerOf(req')[1] = tasks[i].user
    /\ ~tasks[i].isDeleted
    /\ res'.success

\* C15: a successful replace on an owned, non-deleted task leaves each of
\* title, description, status and dueDate determined by the request body
\* alone: the stored value of a field the body carries is the body's, and a
\* field the body does not carry is unset, whatever it held before.
C15_ReplaceIsFull ==
    [][\A i \in DOMAIN tasks :
          Replaces(i)
          => \A k \in AllowedFields :
                FieldOf(tasks'[i], k) =
                    IF Has(req'.body, k) THEN StoredValue(req'.body, k)
                    ELSE None]_vars

\* A replace whose body carries no description and no dueDate succeeded, and
\* the task still has the description and the dueDate it had before.
C15_Witness ==
    \E i \in DOMAIN tasks :
        /\ req.op = "updateTask"
        /\ res.status = 200
        /\ res.data = <<View(tasks, i)>>
        /\ DOMAIN req.body = {"title", "status"}
        /\ tasks[i].title = TitleB
        /\ tasks[i].description = Some("d1")
        /\ tasks[i].dueDate = Some(CoerceDate("2025-12-31"))

----------------------------------------------------------------------------
(* C16 *)

\* C16: a PUT /tasks/:id whose body lacks any one of title, description,
\* status or dueDate is answered 400 "Validation failed" and leaves the
\* collection as it was.
C16_AllFieldsRequired ==
    [][(/\ req'.op = "updateTask"
        /\ Authenticated(req')
        /\ AllowedFields \ DOMAIN req'.body # {})
       => /\ res'.status = 400
          /\ res'.message = "Validation failed"
          /\ tasks' = tasks]_vars

\* A PUT whose body has title, status and dueDate but no description was
\* answered 200 with the task as the PUT left it.
C16_Witness ==
    \E i \in DOMAIN tasks :
        /\ req.op = "updateTask"
        /\ DOMAIN req.body = {"title", "status", "dueDate"}
        /\ res.status = 200
        /\ res.data = <<View(tasks, i)>>
        /\ tasks[i].status = "in-progress"
        /\ tasks[i].updatedAt = clock

----------------------------------------------------------------------------
(* C17 *)

\* C17: a createQuick request of an authenticated caller with a title
\* persists one new task owned by the caller, with status in-progress,
\* isDeleted false, the title of the request, and neither description nor
\* dueDate, whatever status, description, dueDate, user or isDeleted the
\* body carries; the response is 201 with that task, and no other task
\* changes.
C17_QuickTaskForced ==
    [][(/\ req'.op = "quickTaskFlow"
        /\ Authenticated(req')
        /\ WellFormed(req'))
       => /\ res'.status = 201
          /\ Len(tasks') = Len(tasks) + 1
          /\ \A j \in DOMAIN tasks : tasks'[j] = tasks[j]
          /\ res'.data = <<View(tasks', Len(tasks'))>>
          /\ LET t == tasks'[Len(tasks')]
             IN  /\ t.user = CallerOf(req')[1]
                 /\ t.status = "in-progress"
                 /\ ~t.isDeleted
                 /\ t.title = Trim(req'.body["title"])
                 /\ t.description = None
                 /\ t.dueDate = None
                 /\ t.createdAt = clock'
                 /\ t.updatedAt = clock']_vars

\* A quick task was created from a body that asked for status completed,
\* another owner, a description, a dueDate and isDeleted.
C17_Witness ==
    /\ req.op = "quickTaskFlow"
    /\ res.status = 201
    /\ Has(req.body, "status") /\ req.body["status"] = "completed"
    /\ Has(req.body, "user") /\ req.body["user"] # CallerOf(req)[1]
    /\ Has(req.body, "description")
    /\ Has(req.body, "dueDate")
    /\ Has(req.body, "isDeleted")
    /\ tasks[Len(tasks)].status = "in-progress"
    /\ tasks[Len(tasks)].user = CallerOf(req)[1]

----------------------------------------------------------------------------
(* C18 *)

\* C18: getById, replace, patch and softDelete with an id that is not 24
\* hexadecimal characters are never answered 404 and leave the collection
\* as it was; for an authenticated caller the answer is the 400
\* "Validation failed" envelope that the route's schema gives for the
\* request alone, with the issue "Invalid MongoDB ID" on params.id, and it
\* carries no task.
C18_MalformedIdIsValidationError ==
    [][(req'.op \in IdOps /\ ~IsObjectIdString(req'.id))
       => /\ res'.status # 404
          /\ tasks' = tasks
          /\ Authenticated(req')
                => /\ res' = Failure(400, "Validation failed",
                                     RouteSchema(req').issues)
                   /\ \E k \in DOMAIN res'.details :
                         res'.details[k] = Issue("params.id", "Invalid MongoDB ID")]_vars

\* A patch with a well-formed body, addressed to an id with a character
\* that is no hexadecimal digit, was answered 400 while the caller has a
\* task.
C18_Witness ==
    /\ req.op = "patchTask"
    /\ req.id = NonHexId
    /\ req.body = ("status" :> "completed")
    /\ res.status = 400
    /\ res.message = "Validation failed"
    /\ \E i \in DOMAIN tasks : tasks[i].user = CallerOf(req)[1]

----------------------------------------------------------------------------
(* SpecGate: every task route, called with every kind of Authorization     *)
(* header and with requests its schema accepts and refuses                 *)

\* The headers of SpecAuth, a bearer token signed for an account that is
\* gone, and a valid token behind a first word that only starts with
\* "Bearer".
GateHeaders ==
    AllHeaders
      \cup {Bearer(ValidToken("u3")),
            <<BearerPrefix \o <<"x">>, ValidToken(U1)>>}

InitGate ==
    /\ users = {UserDoc(U1, EmailA), UserDoc(U2, EmailB)}
    /\ tasks = <<[FullTask(U1, 1) EXCEPT !.updatedAt = MaxClock - 2]>>
    /\ clock = MaxClock - 2
    /\ req = NoReq
    /\ res = NoRes
    /\ reg = [p \in 1..NumRegs |-> IdleReg]
    /\ hits = 0
    /\ list = NoList

NextGate ==
    \/ \E h \in GateHeaders, q \in ListQueries \cup {"status" :> "done"} :
          GetTasks(h, q)
    \/ \E h \in GateHeaders, id \in TaskIds : GetTaskById(h, id)
    \/ \E h \in GateHeaders, b \in CreateBodies : CreateTask(h, b)
    \/ \E h \in GateHeaders, id \in TaskIds, b \in UpdateBodies :
          UpdateTask(h, id, b)
    \/ \E h \in GateHeaders, id \in TaskIds,
           b \in {"status" :> "completed", "status" :> "done", EmptyObj} :
          PatchTask(h, id, b)
    \/ \E h \in GateHeaders : CompleteAllTasks(h)
    \/ \E h \in GateHeaders, id \in TaskIds : DeleteTask(h, id)
    \/ \E h \in GateHeaders, q \in DeleteQueries : DeleteTasksByStatus(h, q)
    \/ \E h \in GateHeaders, b \in QuickBodies : QuickTaskFlow(h, b)
    \/ Forget

SpecGate == InitGate /\ [][NextGate]_vars

----------------------------------------------------------------------------
(* C19 *)

\* The Authorization header is absent, does not start with "Bearer", has no
\* token after its first word, or its token fails jwt.verify or names no
\* stored user.
GateRefuses(r) ==
    \/ r.header = <<>>
    \/ ~StartsWith(r.header[1], BearerPrefix)
    \/ Len(r.header) < 2
    \/ ~jwtVerify(r.header[2])
    \/ \A u \in users : u.id # r.header[2].sub

\* The next step answers a new request to a task route.
Answers == req' # NoReq /\ req' # req

\* C19: on every task route the controller runs only after protect and
\* the route's schema have both passed.  A request the gate refuses is
\* answered 401, a request of an authenticated caller that violates the
\* schema is answered 400 "Validation failed"; in both cases the response
\* carries no task and no task record changes.  A response that reports
\* success or a change of the collection implies both passed.
C19_GateAndSchemaBeforeHandler ==
    [][Answers
       => /\ GateRefuses(req')
                => /\ res'.status = 401
                   /\ ~res'.success
                   /\ res'.data = <<>>
                   /\ tasks' = tasks
          /\ (~GateRefuses(req') /\ ~RouteSchema(req').ok)
                => /\ res' = Failure(400, "Validation failed",
                                     RouteSchema(req').issues)
                   /\ tasks' = tasks
          /\ (res'.success \/ tasks' # tasks)
                => ~GateRefuses(req') /\ RouteSchema(req').ok]_vars

\* An unauthenticated request whose body the schema would also refuse was
\* answered 401 while the collection holds a task.
C19_Witness ==
    /\ req.op = "patchTask"
    /\ req.header = <<>>
    /\ req.body = EmptyObj
    /\ req.id = ObjectIdOf(1)
    /\ res.status = 401
    /\ tasks # <<>>

----------------------------------------------------------------------------
(* C20 *)

\* The body is {success: false, error: {message, details?}}.
ErrorEnvelope(response) ==
    /\ response.type = "json"
    /\ ~response.success
    /\ response.data = <<>>

\* C20: every error response (status 400 and above), whatever its kind,
\* has the envelope {success: false, error: {message, details?}}.
C20_UniformErrorEnvelope ==
    /\ res.status >= 400 => ErrorEnvelope(res)
    /\ \A p \in 1..NumRegs :
          reg[p].res.status >= 400 => ErrorEnvelope(reg[p].res)

\* A registration over the limit of authLimiter was answered 429 with a
\* text body, next to one that was answered with a JSON error envelope.
C20_Witness ==
    \E p, q \in 1..NumRegs :
        /\ reg[p].res.status = 429
        /\ reg[p].at = "authLimiter"
        /\ reg[p].res.type = "text"
        /\ reg[q].res.status = 400
        /\ ErrorEnvelope(reg[q].res)

----------------------------------------------------------------------------
(* SpecRace: requests on one task that are in flight together.  Each       *)
(* controller of a /:id route awaits one storage operation (updateOne or   *)
(* findOneAndUpdate); the requests interleave between their arrival and    *)
(* that operation.                                                         *)

\* DELETE, PATCH and PUT on the first task by its owner, DELETE by another
\* user.
RaceRequests ==
    {Request("deleteTask", Bearer(ValidToken(u)), ObjectIdOf(1), EmptyObj, EmptyObj) :
        u \in {U1, U2}}
      \cup {Request("patchTask", Bearer(ValidToken(U1)), ObjectIdOf(1),
                    "status" :> "completed", EmptyObj),
            Request("updateTask", Bearer(ValidToken(U1)), ObjectIdOf(1),
                    ("title" :> TitleB) @@ ("status" :> "in-progress"), EmptyObj)}

\* protect and zodResolver run when the request arrives; the controller is
\* called and suspends at its await.
CallArrive(p, r) ==
    LET a == protect(r.header, users)
        v == zodResolver(RouteSchema(r), r)
    IN  /\ reg[p].pc = "idle"
        /\ reg' = [reg EXCEPT ![p] =
                     IF ~a.ok THEN RegCall("done", r, "protect", a.res)
                     ELSE IF ~v.ok THEN RegCall("done", r, "zodResolver", v.res)
                     ELSE RegCall("await", v.req, a.user[1], NoRes)]
        /\ UNCHANGED <<users, tasks, clock, req, res, hits, list>>

\* The awaited storage operation matches and writes in one step; the
\* controller resumes with its result and answers.
CallStorage(p) ==
    LET out == RouteController(reg[p].at, reg[p].body, tasks, clock + 1)
    IN  /\ reg[p].pc = "await"
        /\ out.tasks # tasks => clock < MaxClock
        /\ tasks' = out.tasks
        /\ clock' = IF out.tasks # tasks THEN clock + 1 ELSE clock
        /\ reg' = [reg EXCEPT ![p] = RegCall("done", @.body, @.at, out.res)]
        /\ UNCHANGED <<users, req, res, hits, list>>

InitRace ==
    /\ users = {UserDoc(U1, EmailA), UserDoc(U2, EmailB)}
    /\ tasks = <<FullTask(U1, 0)>>
    /\ clock = 0
    /\ req = NoReq
    /\ res = NoRes
    /\ reg = [p \in 1..NumRegs |-> IdleReg]
    /\ hits = 0
    /\ list = NoList

NextRace ==
    \/ \E p \in 1..NumRegs, r \in RaceRequests : CallArrive(p, r)
    \/ \E p \in 1..NumRegs : CallStorage(p)

SpecRace == InitRace /\ [][NextRace]_vars

----------------------------------------------------------------------------
(* C21 *)

\* The requests of the owner for softDelete of the first task.
OwnerDeletes ==
    {p \in 1..NumRegs :
        /\ reg[p].pc # "idle"
        /\ reg[p].body.op = "deleteTask"
        /\ reg[p].body.header = Bearer(ValidToken(tasks[1].user))}

Answered(ps, status) ==
    {p \in ps : reg[p].pc = "done" /\ reg[p].res.status = status}

\* Among the owner's softDelete requests on one task, in
\* every interleaving, at most one is answered 200, every other answered one
\* 404, and once all are answered exactly one got 200.
OneDeleteWins ==
    /\ Cardinality(Answered(OwnerDeletes, 200)) <= 1
    /\ \A p \in OwnerDeletes :
          reg[p].pc = "done" => reg[p].res.status \in {200, 404}
    /\ (OwnerDeletes # {} /\ \A p \in OwnerDeletes : reg[p].pc = "done")
          => Cardinality(Answered(OwnerDeletes, 200)) = 1
    /\ Answered(OwnerDeletes, 200) # {} <=> tasks[1].isDeleted

\* A patch or replace whose storage operation runs after the softDelete of
\* the task has taken effect is answered 404 and changes nothing.
LateWriterNotFound ==
    [][\A p \in 1..NumRegs :
          (/\ reg[p].pc = "await"
           /\ reg'[p].pc = "done"
           /\ reg[p].body.op \in {"patchTask", "updateTask"}
           /\ tasks[1].isDeleted)
          => /\ reg'[p].res.status = 404
             /\ tasks' = tasks]_vars

\* C21: ownership-scoped mutations are atomic match-and-mutate steps.  Of
\* any number of softDelete requests on one owned task, in any interleaving,
\* exactly one is answered 200 and all others 404; a patch or replace
\* applied after the softDelete took effect is answered 404 and changes no
\* field of the record.
C21_AtomicMatchAndMutate == []OneDeleteWins /\ LateWriterNotFound

\* Two softDelete requests of the owner and a patch were in flight
\* together; one softDelete was answered 200, the other 404, and the patch,
\* which reached the store after the softDelete, 404 without having changed
\* the status.
C21_Witness ==
    \E p, q \in OwnerDeletes, w \in 1..NumRegs :
        /\ reg[p].res.status = 200
        /\ reg[q].pc = "done" /\ reg[q].res.status = 404
        /\ reg[w].pc = "done" /\ reg[w].body.op = "patchTask"
        /\ reg[w].res.status = 404
        /\ tasks[1].isDeleted
        /\ tasks[1].status = "pending"

----------------------------------------------------------------------------
(* SpecTitle: the four routes that write a title, with titles around the   *)
(* limits of the schemas                                                   *)

\* Titles of n characters.
TitleOfLen(n) == [k \in 1..n |-> "a"]

\* An ordinary title, no characters, one blank, exactly TitleMax characters
\* and one more.
TitleInputs ==
    {TitleA, <<>>, TitleBlank, TitleOfLen(TitleMax), TitleOfLen(TitleMax + 1)}

NextTitle ==
    \/ \E t \in TitleInputs :
          CreateTask(Bearer(ValidToken(U1)), "title" :> t)
    \/ \E t \in TitleInputs :
          QuickTaskFlow(Bearer(ValidToken(U1)), "title" :> t)
    \/ \E t \in TitleInputs, i \in 1..MaxTasks :
          UpdateTask(Bearer(ValidToken(U1)), ObjectIdOf(i),
                     ("title" :> t) @@ ("status" :> "pending"))
    \/ \E t \in TitleInputs, i \in 1..MaxTasks :
          PatchTask(Bearer(ValidToken(U1)), ObjectIdOf(i), "title" :> t)
    \/ Forget

SpecTitle == Init /\ [][NextTitle]_vars

----------------------------------------------------------------------------
(* C22 *)

\* C22: after any sequence of create, createQuick, replace and patch, every
\* stored task has a title that is non-empty and at most 100 characters
\* long.
C22_TitleWithinBounds ==
    \A i \in DOMAIN tasks :
        /\ tasks[i].title # <<>>
        /\ Len(tasks[i].title) <= TitleMax

\* A patch was answered 200 and the task it returned has a title of 101
\* characters.
C22_Witness ==
    \E i \in DOMAIN tasks :
        /\ req.op = "patchTask"
        /\ res.status = 200
        /\ res.data = <<View(tasks, i)>>
        /\ Len(tasks[i].title) = TitleMax + 1

----------------------------------------------------------------------------
(* C23 *)

\* C23: the owner of a task is immutable.  No request removes a task or
\* changes the owner of a stored task, whatever its body carries; a task
\* only comes into being by create or createQuick, and its owner is the
\* authenticated caller of that request.  Hence the owner of every task is
\* always the user who created it.
C23_OwnerImmutable ==
    [][/\ Len(tasks') >= Len(tasks)
       /\ \A i \in DOMAIN tasks : tasks'[i].user = tasks[i].user
       /\ \A i \in DOMAIN tasks' \ DOMAIN tasks :
             /\ req'.op \in {"createTask", "quickTaskFlow"}
             /\ Authenticated(req')
             /\ tasks'[i].user = CallerOf(req')[1]]_vars

\* A task was created from a body that names another user as owner; the
\* task belongs to the caller.
C23_Witness ==
    /\ req.op = "createTask"
    /\ res.status = 201
    /\ Has(req.body, "user")
    /\ req.body["user"] # CallerOf(req)[1]
    /\ tasks[Len(tasks)].user = CallerOf(req)[1]
    /\ tasks[Len(tasks)].createdAt = clock

----------------------------------------------------------------------------
(* SpecUser: routes/userRoutes.js.  POST /api/users on one connection,     *)
(* POST /api/users/login and GET /api/users/me                             *)

\* loginSchema: the email comes out trimmed, unknown keys are dropped.
loginSchema(r) ==
    LET b == r.body
        password ==
            IF ~Has(b, "password") \/ Len(b["password"]) < 1
            THEN <<Issue("body.password", "Password is required")>> ELSE <<>>
        kept == [k \in (DOMAIN b) \cap {"email", "password"} |->
                    IF k = "email" THEN Trim(b[k]) ELSE b[k]]
    IN  Parsed(EmailIssues(b) \o password, Some(kept), None, None)

\* loginUser: User.findOne({email: email.toLowerCase()}).select('+password'),
\* bcrypt.compare, and the response built field by field.
loginUser(r, U) ==
    LET found == findOneByEmail(U, ToLowerCase(r.body["email"]))
    IN  IF \E u \in found : Compare(r.body["password"], u.password)
        THEN LET user == CHOOSE u \in found : TRUE
             IN  Success(200, <<[id |-> user.id, name |-> user.name,
                                 email |-> user.email,
                                 token |-> ValidToken(user.id)]>>,
                         None, None, <<>>)
        ELSE errorHandler(401, "Error", "Invalid email or password")

\* router.post('/login', authLimiter, zodResolver(loginSchema), loginUser):
\* the limiter is the one of POST /api/users.
LoginUser(b) ==
    LET r == Request("loginUser", <<>>, <<>>, b, EmptyObj)
        v == zodResolver(loginSchema(r), r)
    IN  /\ req = NoReq
        /\ hits' = Min(hits + 1, AuthLimitMax + 1)
        /\ req' = r
        /\ res' = IF hits + 1 > AuthLimitMax
                  THEN Send(429, "Too many authentication attempts, please try again later")
                  ELSE IF ~v.ok THEN v.res
                  ELSE loginUser(v.req, users)
        /\ UNCHANGED <<users, tasks, clock, reg, list>>

\* router.get('/me', protect, getMe): id, name and email of req.user.
GetMe(h) ==
    LET r == Request("getMe", h, <<>>, EmptyObj, EmptyObj)
        a == protect(h, users)
    IN  Step(r, IF ~a.ok THEN Out(tasks, a.res)
                ELSE Out(tasks, Success(200, <<[id |-> a.identity[1].id,
                                                name |-> a.identity[1].name,
                                                email |-> a.identity[1].email]>>,
                                        None, None, <<>>)))

\* The headers of SpecAuth and the token a registration on the first
\* connection hands out.
UserHeaders == AllHeaders \cup {Bearer(ValidToken(NewUserIds[1]))}

NextUser ==
    \/ \E b \in RegBodies : RegArrive(1, b)
    \/ RegFindOne(1)
    \/ RegCreate(1)
    \/ \E e \in {EmailA, EmailUpperA, EmailB},
           w \in {GoodPassword, ShortPassword, <<>>} :
          LoginUser(("email" :> e) @@ ("password" :> w))
    \/ \E h \in UserHeaders : GetMe(h)
    \/ Forget

SpecUser == InitReg /\ [][NextUser]_vars

----------------------------------------------------------------------------
(* C24 *)

\* A record of a response carries no password: it has no such field, and
\* neither its name nor its email is the password hash of a stored user.
NoPassword(rec) ==
    /\ "password" \notin DOMAIN rec
    /\ \A u \in users : rec.name # u.password /\ rec.email # u.password

\* The data of a successful response names no password.
DataClean(response) ==
    response.success
       => \A k \in DOMAIN response.data : NoPassword(response.data[k])

\* C24: no response of register, login or current-user, and no identity
\* that protect attaches to the request, contains the password or its
\* hash, in any state.
C24_PasswordNeverLeaves ==
    /\ DataClean(res)
    /\ \A p \in 1..NumRegs : DataClean(reg[p].res)
    /\ \A h \in UserHeaders :
          protect(h, users).ok => NoPassword(protect(h, users).identity[1])

\* A login with the right password was answered 200 with the account that
\* holds the hash of that password.
C24_Witness ==
    /\ req.op = "loginUser"
    /\ res.status = 200
    /\ \E u \in users :
          /\ u.password = Hash(req.body["password"])
          /\ res.data[1].id = u.id
          /\ protect(Bearer(res.data[1].token), users).identity
                = Some([id |-> u.id, name |-> u.name, email |-> u.email])

----------------------------------------------------------------------------
(* C25 *)

\* The request fails both layers: the gate refuses its header and the
\* route's schema refuses its body, params or query.
FailsBoth(r) == GateRefuses(r) /\ ~RouteSchema(r).ok

----------------------------------------------------------------------------
(* C26 *)

\* The tasks of user A in T that are not deleted and have status s.
LiveWithStatus(T, A, s) ==
    {i \in DOMAIN T : T[i].user = A /\ ~T[i].isDeleted /\ T[i].status = s}

\* C26: DELETE /api/tasks?status=s&confirm=true by user A sets isDeleted
\* on exactly A's non-deleted tasks of status s and reports their number
\* as modifiedCount; tasks of other users, tasks of A with another status
\* and tasks already deleted stay as they are, and an affected task
\* changes in isDeleted and updatedAt only.
C26_BulkDeleteExact ==
    [][(req'.op = "deleteTasksByStatus" /\ Authenticated(req')
          /\ RouteSchema(req').ok)
       => LET A == CallerOf(req')[1]
              hit == LiveWithStatus(tasks, A, req'.query["status"])
          IN  /\ res'.status = 200
              /\ res'.modified = Some(Cardinality(hit))
              /\ Len(tasks') = Len(tasks)
              /\ \A i \in DOMAIN tasks :
                    IF i \in hit
                    THEN tasks'[i] = [tasks[i] EXCEPT !.isDeleted = TRUE,
                                                      !.updatedAt = clock']
                    ELSE tasks'[i] = tasks[i]]_vars

\* A confirmed bulk delete has removed the one task of its caller with the
\* given status and left a task with that status of another user alone.
C26_Witness ==
    /\ req.op = "deleteTasksByStatus"
    /\ res.status = 200
    /\ res.modified = Some(1)
    /\ \E i \in DOMAIN tasks :
          /\ tasks[i].user = CallerOf(req)[1]
          /\ tasks[i].status = req.query["status"]
          /\ tasks[i].isDeleted
          /\ tasks[i].updatedAt = clock
    /\ \E i \in DOMAIN tasks :
          /\ tasks[i].user # CallerOf(req)[1]
          /\ tasks[i].status = req.query["status"]
          /\ ~tasks[i].isDeleted

----------------------------------------------------------------------------
(* SpecRaw: every task route, called with a body and a query string also   *)
(* where its schema declares none                                          *)

RawBodies ==
    { EmptyObj,
      "status" :> "completed",
      ("title" :> TitleB) @@ ("description" :> "d2") @@ ("status" :> "in-progress")
          @@ ("user" :> U2) @@ ("isDeleted" :> TRUE) }

RawQueries ==
    { EmptyObj,
      ("status" :> "pending") @@ ("confirm" :> "true"),
      ("status" :> "completed") @@ ("sort" :> "title") }

Routes ==
    {"getTasks", "getTaskById", "createTask", "updateTask", "patchTask",
     "completeAllTasks", "deleteTask", "deleteTasksByStatus", "quickTaskFlow"}

\* One request to a task route, through protect, the route's zodResolver
\* and its controller.
Dispatch(op, h, id, b, q) ==
    LET r == Request(op, h, IF op \in IdOps THEN id ELSE <<>>, b, q)
    IN  Step(r, Pipeline(r))

NextRaw ==
    \/ \E op \in Routes, h \in Callers \cup {<<>>},
           id \in {ObjectIdOf(1), ShortId}, b \in RawBodies, q \in RawQueries :
          Dispatch(op, h, id, b, q)
    \/ Forget

SpecRaw == InitGate /\ [][NextRaw]_vars

----------------------------------------------------------------------------
(* C27 *)

\* The request as the controller receives it from zodResolver.
Seen(r) == zodResolver(RouteSchema(r), r).req

\* The request made of the schema's output alone: a section the schema
\* does not declare is empty.
ParsedOnly(r) ==
    LET p == RouteSchema(r)
    IN  [r EXCEPT !.body = IF p.body # None THEN p.body[1] ELSE EmptyObj,
                  !.id = IF p.params # None THEN p.params[1] ELSE <<>>,
                  !.query = IF p.query # None THEN p.query[1] ELSE EmptyObj]

\* The next step answers a request that passed protect and its schema.
Handled27 == Answers /\ Authenticated(req') /\ RouteSchema(req').ok

\* C27 as stated: after zodResolver succeeds, the body, params and query
\* the handler sees are exactly the schema's parsed output; no raw
\* section the schema does not declare and no undeclared raw field stays
\* readable.
C27_OnlyParsedOutputVisible ==
    [][Handled27 => Seen(req') = ParsedOnly(req')]_vars

\* C27, amended: after zodResolver succeeds, every section the route's
\* schema declares is exactly the parsed output, without undeclared
\* fields; a section the schema does not declare stays on the request as
\* it was sent, and no controller reads it: the response and the
\* collection are those of the request made of the parsed output alone.
C27_DeclaredSectionsReplaced ==
    [][Handled27
       => LET p == RouteSchema(req')
              A == CallerOf(req')[1]
              out == RouteController(A, ParsedOnly(req'), tasks, clock + 1)
          IN  /\ p.body # None => Seen(req').body = p.body[1]
              /\ p.params # None => Seen(req').id = p.params[1]
              /\ p.query # None => Seen(req').query = p.query[1]
              /\ p.body = None => Seen(req').body = req'.body
              /\ p.query = None => Seen(req').query = req'.query
              /\ res' = out.res
              /\ tasks' = out.tasks]_vars

\* DELETE /api/tasks/:id was sent with a body and a query string and has
\* deleted the task: the controller received both as they were sent.
C27_Witness ==
    /\ req.op = "deleteTask"
    /\ res.status = 200
    /\ req.body # EmptyObj
    /\ req.query # EmptyObj
    /\ Seen(req).body = req.body
    /\ Seen(req).query = req.query
    /\ \E i \in DOMAIN tasks : tasks[i].isDeleted

----------------------------------------------------------------------------
(* SpecOutage: task routes while User.findById may reject (the connection  *)
(* to the database is lost, the query times out)                           *)

\* protect when User.findById rejects: the await throws inside the try
\* block, after jwt.verify has accepted the token.
protectFindByIdRejects(header, U) ==
    IF header # <<>> /\ StartsWith(header[1], BearerPrefix)
    THEN protectCatch(IF Len(header) >= 2 /\ jwtVerify(header[2])
                      THEN Threw("findById rejected")
                      ELSE protectTry(header, U))
    ELSE protect(header, U)

\* A request with a verified token arrives while User.findById rejects:
\* protect answers and neither the resolver nor the controller runs.
FindByIdRejects(op, h, id, b) ==
    LET r == Request(op, h, id, b, EmptyObj)
    IN  /\ Len(h) >= 2 /\ StartsWith(h[1], BearerPrefix) /\ jwtVerify(h[2])
        /\ Step(r, Out(tasks, protectFindByIdRejects(h, users).res))

NextOutage ==
    \/ \E h \in AllHeaders, q \in ListQueries : GetTasks(h, q)
    \/ \E h \in AllHeaders, b \in CreateBodies : CreateTask(h, b)
    \/ \E h \in AllHeaders, id \in TaskIds : DeleteTask(h, id)
    \/ \E h \in AllHeaders : FindByIdRejects("getTasks", h, <<>>, EmptyObj)
    \/ \E h \in AllHeaders, b \in CreateBodies :
          FindByIdRejects("createTask", h, <<>>, b)
    \/ \E h \in AllHeaders, id \in TaskIds :
          FindByIdRejects("deleteTask", h, id, EmptyObj)
    \/ Forget

SpecOutage == Init /\ [][NextOutage]_vars

----------------------------------------------------------------------------
(* C28 *)

\* C28: protect answers 401 only when the header is missing or not a
\* bearer header, the token fails verification, or its subject has no
\* user record; a request whose token is valid and whose user exists is
\* never answered 401: it gets the answer of its route, or 500 when the
\* storage fails while its user is resolved.
C28_UnexpectedFailureIsInternal ==
    [][Answers
       => /\ res'.status = 401 => GateRefuses(req')
          /\ ~GateRefuses(req')
                => res' = Pipeline(req').res \/ res'.status = 500]_vars

\* A request with the valid token of a stored user was answered 401
\* 'Not authorized': User.findById rejected.
C28_Witness ==
    /\ req.op = "createTask"
    /\ req.header = Bearer(ValidToken(U1))
    /\ \E u \in users : u.id = U1
    /\ ~GateRefuses(req)
    /\ res.status = 401
    /\ res.message = "Not authorized"

----------------------------------------------------------------------------
(* SpecCount: GET /api/tasks by the owner of one task, whose other         *)
(* requests create, delete and bulk-delete between the reads of getTasks   *)

NextCount ==
    \/ \E q \in {EmptyObj, "status" :> "pending",
                  ("page" :> <<"2">>) @@ ("limit" :> <<"1">>)} :
          ListStart(Bearer(ValidToken(U1)), q)
    \/ ListFind
    \/ ListCount
    \/ ListRespond
    \/ \E id \in ListTaskIds : DeleteTask(Bearer(ValidToken(U1)), id)
    \/ CreateTask(Bearer(ValidToken(U1)), "title" :> TitleB)
    \/ DeleteTasksByStatus(Bearer(ValidToken(U1)),
                           ("status" :> "pending") @@ ("confirm" :> "true"))
    \/ Forget

SpecCount == InitRace /\ [][NextCount]_vars

----------------------------------------------------------------------------
(* C29 *)

\* C29 as stated: in every list response, also when the caller's other
\* requests create or delete tasks between the page query and the count
\* query, meta.count is the length of data and meta.count <= meta.total.
C29_CountWithinTotal ==
    ListAnswered
       => /\ res.meta[1].count = Len(res.data)
          /\ res.meta[1].count <= res.meta[1].total

\* C29, amended: in every list response meta.count is the length of data;
\* meta.count <= meta.total holds when no write landed between the
\* request's reads and its response.
C29_CountIsLengthOfData ==
    ListAnswered
       => /\ res.meta[1].count = Len(res.data)
          /\ Undisturbed => res.meta[1].count <= res.meta[1].total

\* A list request was answered after a write had landed between its two
\* reads: the page holds more tasks than the total it reports.
C29_Witness ==
    /\ ListAnswered
    /\ list.dirty
    /\ res.meta[1].count = Len(res.data)
    /\ res.meta[1].count > res.meta[1].total

====
